---- MODULE Spec2Model ----
(***************************************************************************)
(* Model of livetree's event loop (src/src/event_loop.rs): the main thread *)
(* that owns AppState and multiplexes the fs-change channel, the key-input *)
(* channel and the liveness tick, and the key-input reader thread.         *)
(* Time is counted in whole seconds.  Spec is the loop with every kind of  *)
(* event arriving; ShutdownSpec is the loop with producers that may die    *)
(* and an interrupt signal, under the scheduler's fairness.  The other     *)
(* specifications study one component each (the text handed to the         *)
(* terminal, the terminal guard, the highlight tracker, the scroll state,  *)
(* the layout): the component's inputs are drawn in the initial state and  *)
(* the actions are its operations.                                         *)
(***************************************************************************)
EXTENDS Integers, Sequences, FiniteSets, TLC

\* ---------------------------------------------------------------- bounds
MaxFsEvents == 2        \* watch events the watcher sends in one run
MaxKeys == 1            \* terminal events the input thread reads in one run
MaxTime == 2            \* seconds the clock advances in one run
MaxShown == 2           \* entries of the snapshot a build returns
InitTermRows == 3       \* rows of the terminal

\* ------------------------------------------------------ program constants
InitialDurationSecs == 3
MaxDurationSecs == 3600
USIZE_MAX == 2147483647 \* usize::MAX, at the width of TLC's integers
FallbackHeight == 24
BarRows == 2
U16_MOD == 65536

SizeErr == -1           \* terminal.size() returned Err
KeyEvents == {"q", "ctrl_c", "r", "Up", "Down", "PageUp", "PageDown",
              "Home", "End", "+", "-", "Resize", "other"}
Batches == {{"a"}, {"a", "b"}}
WatchEvents == {[type |-> "Changed", paths |-> ps] : ps \in Batches}
               \cup {[type |-> "RootDeleted", paths |-> {}],
                     [type |-> "Error", paths |-> {}]}
\* The events of the runs that study shutdown: one of each kind that ends
\* the loop, and one of each kind that does not.
ShutdownKeyEvents == {"q", "ctrl_c", "other"}
ShutdownWatchEvents == {[type |-> "Changed", paths |-> {"a"}],
                        [type |-> "RootDeleted", paths |-> {}]}
ClockLags == {0, 1}     \* seconds between the two clock reads of a handler

VARIABLES
    mainPc,         \* init | running | exiting | joining | done | panicked
    inputPc,        \* check | poll | read | send | done | panicked
    shutdown,       \* AtomicBool written by the main thread
    interrupted,    \* AtomicBool written by the ctrlc handler
    fsQueue,        \* fs_rx: watch events in flight
    fsAlive,        \* the watcher still holds the sender of fs_rx
    keyQueue,       \* key_rx: terminal events in flight
    quiet,          \* the quiet argument of run
    now,            \* the clock
    termRows,       \* what terminal.size() reports: a height or SizeErr
    fsTree,         \* what a build finds: entries kept, 1 if entries are cut
    tree_cache,     \* AppState.tree_cache: <<>> is None, <<s>> is Some(s)
    highlights,     \* HighlightTracker: entries (path -> instant), duration
    highlight_duration_secs,
    offset,         \* ScrollState.offset
    total_lines,    \* ScrollState.total_lines
    last_change,    \* AppState.last_change: <<>> is None, <<t>> is Some(t)
    drawn,          \* what the last terminal.draw put on the screen
    stderrLog,      \* number of lines written to stderr
    lastEvent,      \* kind of the last event the loop received
    handled,        \* events the loop has received
    changedHandled, \* Changed events the loop has received
    buildCount,     \* calls of tree_builder.build_tree
    renderCount,    \* calls of AppState::render
    messageCount,   \* calls of AppState::render_message
    fsSent,         \* watch events sent so far
    keysRead,       \* terminal events read so far
    call,           \* component studies: the operation and its arguments
    ret,            \* component studies: <<>>, or <<r>> once it returned r
    guard,          \* the terminal state, its TerminalGuard and panic hook
    tracker,        \* a HighlightTracker on its own
    touched,        \* path -> instant of its last insert since the last clear
    clock,          \* the instant of the latest call on the tracker
    scroll,         \* a ScrollState on its own
    walk            \* a build_tree call in progress: its WalkDir iterator

appVars == <<tree_cache, highlights, highlight_duration_secs, offset,
             total_lines, last_change>>
obsVars == <<drawn, stderrLog, lastEvent, handled, changedHandled,
             buildCount, renderCount, messageCount>>
mainVars == <<mainPc, shutdown>>
inputVars == <<inputPc, keysRead>>
chanVars == <<fsQueue, fsAlive, keyQueue, fsSent>>
\* The state of the component studies; the event loop never touches it.
objVars == <<guard, tracker, touched, clock, scroll, walk>>
unitVars == <<call, ret, objVars>>
envVars == <<interrupted, quiet, now, termRows, fsTree, unitVars>>
\* The state of the event loop; the component studies never touch it.
loopVars == <<mainPc, inputPc, shutdown, interrupted, fsQueue, fsAlive,
              keyQueue, quiet, now, termRows, fsTree, tree_cache, highlights,
              highlight_duration_secs, offset, total_lines, last_change,
              drawn, stderrLog, lastEvent, handled, changedHandled,
              buildCount, renderCount, messageCount, fsSent, keysRead>>
vars == <<loopVars, unitVars>>

\* ------------------------------------------------------------ arithmetic
SaturatingSub(a, n) == IF n > a THEN 0 ELSE a - n
SaturatingAddWraps(a, n) ==
    IF a > USIZE_MAX - n THEN a - (USIZE_MAX - n) - 1 ELSE a + n
SaturatingAdd(a, n) == IF a > USIZE_MAX - n THEN USIZE_MAX ELSE a + n
AsU16(n) == n % U16_MOD

\* ------------------------------------------------------ HighlightTracker
EmptyEntries == [p \in {} |-> 0]
HighlightTrackerNew(d) == [entries |-> EmptyEntries, duration |-> d]
HlInsertKeepFirst(h, p, t) ==
    IF p \in DOMAIN h.entries THEN h
    ELSE [h EXCEPT !.entries = [q \in DOMAIN h.entries \cup {p} |->
                                   IF q = p THEN t ELSE h.entries[q]]]
HlInsert(h, p, t) ==
    [h EXCEPT !.entries = [q \in DOMAIN h.entries \cup {p} |->
                              IF q = p THEN t ELSE h.entries[q]]]
HlInsertAll(h, ps, t) ==
    [h EXCEPT !.entries = [q \in DOMAIN h.entries \cup ps |->
                              IF q \in ps THEN t ELSE h.entries[q]]]
HlRetainZeroKeeps(h, t) ==
    LET keep == {p \in DOMAIN h.entries :
                    h.duration = 0 \/ t - h.entries[p] < h.duration}
    IN [h EXCEPT !.entries = [p \in keep |-> h.entries[p]]]
HlRetainInclusive(h, t) ==
    LET keep == {p \in DOMAIN h.entries : t - h.entries[p] <= h.duration}
    IN [h EXCEPT !.entries = [p \in keep |-> h.entries[p]]]
HlRetain(h, t) ==
    LET keep == {p \in DOMAIN h.entries : t - h.entries[p] < h.duration}
    IN [h EXCEPT !.entries = [p \in keep |-> h.entries[p]]]
ActiveSet(h, t) == DOMAIN HlRetain(h, t).entries
HlClearKept(h) == h
HlClear(h) == [h EXCEPT !.entries = EmptyEntries]
HlSetDuration(h, d) == [h EXCEPT !.duration = d]

\* ----------------------------------------------------------- ScrollState
UpdateTotalAndClampKeeps(off, total, view_height) ==
    IF total > view_height
    THEN LET max_scroll == SaturatingSub(total, view_height)
         IN IF off > max_scroll THEN max_scroll ELSE off
    ELSE off
UpdateTotalAndClamp(off, total, view_height) ==
    IF total > view_height
    THEN LET max_scroll == SaturatingSub(total, view_height)
         IN IF off > max_scroll THEN max_scroll ELSE off
    ELSE 0
ScrollUp(off, n) == SaturatingSub(off, n)
ScrollDown(off, n) == SaturatingAdd(off, n)
ScrollHome(off) == 0
ScrollEnd(off) == USIZE_MAX

\* -------------------------------------------------------------- snapshot
\* A TreeSnapshot: the number of entries kept, the number discovered, and
\* seq, the number of the build_tree call that returned it.
Snapshot(shown, cut, seq) ==
    [entries |-> shown, total_entries |-> shown + cut, seq |-> seq]
AreaHeight(r) == IF r = SizeErr THEN FallbackHeight ELSE r
VisibleHeight(r) == SaturatingSub(AreaHeight(r), BarRows)
ChronoLiteNow(secs) ==
    <<(secs % 86400) \div 3600, (secs % 3600) \div 60, secs % 60>>
NotDrawn == [kind |-> "none", seq |-> 0, offset |-> 0, active |-> {},
             lines |-> 0, view |-> 0]

NoCall == [op |-> "none"]
CallIdle == call = NoCall /\ ret = <<>>
GuardIdle == guard = [pc |-> "idle"]
TrackerIdle == tracker = HighlightTrackerNew(0) /\ touched = EmptyEntries
               /\ clock = 0
ScrollIdle == scroll = [offset |-> 0, total_lines |-> 0]
WalkIdle == walk = [pc |-> "idle"]
UnitIdle == CallIdle /\ GuardIdle /\ TrackerIdle /\ ScrollIdle /\ WalkIdle

\* The state after construction, with the highlight duration at d and with
\* the events keys and fs already sent before the loop first looks.
LoopInitOf(d, keys, fs) ==
    /\ mainPc = "init"
    /\ inputPc = "check"
    /\ shutdown = FALSE
    /\ interrupted = FALSE
    /\ fsQueue = fs
    /\ fsAlive = TRUE
    /\ keyQueue = keys
    /\ quiet \in BOOLEAN
    /\ now = 0
    /\ termRows = InitTermRows
    /\ fsTree = [shown |-> MaxShown, cut |-> 1]
    /\ tree_cache = <<>>
    /\ highlights = HighlightTrackerNew(d)
    /\ highlight_duration_secs = d
    /\ offset = 0
    /\ total_lines = 0
    /\ last_change = <<>>
    /\ drawn = NotDrawn
    /\ stderrLog = 0
    /\ lastEvent = "none"
    /\ handled = 0
    /\ changedHandled = 0
    /\ buildCount = 0
    /\ renderCount = 0
    /\ messageCount = 0
    /\ fsSent = Len(fs)
    /\ keysRead = Len(keys)

LoopInit == LoopInitOf(InitialDurationSecs, <<>>, <<>>)

Init == LoopInit /\ UnitIdle

\* ------------------------------------------------------ AppState::render
NeedsBuildAlways(cache) == TRUE
NeedsBuild(cache) == cache = <<>>
LinesOf(snap) ==
    snap.entries + (IF snap.total_entries > snap.entries THEN 1 ELSE 0)

\* render() on the tracker hl, the offset off and the cache `cache`, at
\* clock reading t: prunes the tracker, builds the tree if the cache is
\* empty, clamps the scroll offset and draws one frame.
BuildTree == Snapshot(fsTree.shown, fsTree.cut, buildCount + 1)

Render(hl, off, cache, t) ==
        LET pruned == HlRetain(hl, t)
            build == NeedsBuild(cache)
            cache2 == IF build THEN <<BuildTree>> ELSE cache
            snap == cache2[1]
            lines == LinesOf(snap)
            tree_area_height == SaturatingSub(AreaHeight(termRows), BarRows)
            off2 == UpdateTotalAndClamp(off, lines, tree_area_height)
        IN /\ highlights' = pruned
           /\ tree_cache' = cache2
           /\ buildCount' = buildCount + (IF build THEN 1 ELSE 0)
           /\ offset' = off2
           /\ total_lines' = lines
           /\ drawn' = [kind |-> "tree", seq |-> snap.seq,
                        offset |-> AsU16(off2),
                        active |-> ActiveSet(hl, t),
                        lines |-> lines, view |-> tree_area_height]
           /\ renderCount' = renderCount + 1

RenderMessage ==
    /\ drawn' = [NotDrawn EXCEPT !.kind = "message"]
    /\ messageCount' = messageCount + 1

Received(kind) ==
    /\ lastEvent' = kind
    /\ handled' = handled + 1

FsReady == fsQueue # <<>> \/ ~fsAlive
KeySenderAlive == inputPc \notin {"done", "panicked"}
KeyReady == keyQueue # <<>> \/ ~KeySenderAlive

\* --------------------------------------------------- main thread actions
InitialRender ==
    /\ mainPc = "init"
    /\ Render(highlights, offset, tree_cache, now)
    /\ mainPc' = "running"
    /\ lastEvent' = "initial"
    /\ UNCHANGED <<shutdown, inputVars, chanVars, envVars,
                   highlight_duration_secs, last_change, stderrLog, handled,
                   changedHandled, messageCount>>

InvalidateCacheKept(cache) == cache
InvalidateCache(cache) == <<>>

HandleChanged ==
    /\ mainPc = "running"
    /\ fsQueue # <<>>
    /\ Head(fsQueue).type = "Changed"
    /\ \E lag \in ClockLags :
        /\ now + lag <= MaxTime
        /\ now' = now + lag
        /\ Render(HlInsertAll(highlights, Head(fsQueue).paths, now), offset,
                  InvalidateCache(tree_cache), now + lag)
    /\ last_change' = <<ChronoLiteNow(now)>>
    /\ fsQueue' = Tail(fsQueue)
    /\ Received("Changed")
    /\ changedHandled' = changedHandled + 1
    /\ UNCHANGED <<mainVars, inputVars, fsAlive, keyQueue, fsSent,
                   interrupted, quiet, termRows, fsTree, unitVars,
                   highlight_duration_secs, stderrLog, messageCount>>

HandleRootDeletedSilent ==
    /\ mainPc = "running"
    /\ fsQueue # <<>>
    /\ Head(fsQueue).type = "RootDeleted"
    /\ mainPc' = "exiting"
    /\ fsQueue' = Tail(fsQueue)
    /\ Received("RootDeleted")
    /\ UNCHANGED <<shutdown, inputVars, fsAlive, keyQueue, fsSent, envVars,
                   appVars, drawn, messageCount, stderrLog, changedHandled,
                   buildCount, renderCount>>

HandleRootDeleted ==
    /\ mainPc = "running"
    /\ fsQueue # <<>>
    /\ Head(fsQueue).type = "RootDeleted"
    /\ RenderMessage
    /\ mainPc' = "exiting"
    /\ fsQueue' = Tail(fsQueue)
    /\ Received("RootDeleted")
    /\ UNCHANGED <<shutdown, inputVars, fsAlive, keyQueue, fsSent, envVars,
                   appVars, stderrLog, changedHandled, buildCount,
                   renderCount>>

HandleWatchErrorLoud ==
    /\ mainPc = "running"
    /\ fsQueue # <<>>
    /\ Head(fsQueue).type = "Error"
    /\ stderrLog' = stderrLog + 1
    /\ fsQueue' = Tail(fsQueue)
    /\ Received("Error")
    /\ UNCHANGED <<mainVars, inputVars, fsAlive, keyQueue, fsSent, envVars,
                   appVars, drawn, changedHandled, buildCount, renderCount,
                   messageCount>>

HandleWatchError ==
    /\ mainPc = "running"
    /\ fsQueue # <<>>
    /\ Head(fsQueue).type = "Error"
    /\ stderrLog' = IF ~quiet THEN stderrLog + 1 ELSE stderrLog
    /\ fsQueue' = Tail(fsQueue)
    /\ Received("Error")
    /\ UNCHANGED <<mainVars, inputVars, fsAlive, keyQueue, fsSent, envVars,
                   appVars, drawn, changedHandled, buildCount, renderCount,
                   messageCount>>

HandleFsClosed ==
    /\ mainPc = "running"
    /\ fsQueue = <<>>
    /\ ~fsAlive
    /\ mainPc' = "exiting"
    /\ lastEvent' = "fs_closed"
    /\ UNCHANGED <<shutdown, inputVars, chanVars, envVars, appVars, drawn,
                   stderrLog, handled, changedHandled, buildCount,
                   renderCount, messageCount>>

KeyHeadPeeked(codes) ==
    /\ mainPc = "running"
    /\ keyQueue # <<>>
    /\ Head(keyQueue) \in codes
    /\ keyQueue' = keyQueue
KeyHead(codes) ==
    /\ mainPc = "running"
    /\ keyQueue # <<>>
    /\ Head(keyQueue) \in codes
    /\ keyQueue' = Tail(keyQueue)

keyFrame == <<shutdown, inputVars, fsQueue, fsAlive, fsSent, envVars,
              last_change, stderrLog, changedHandled, messageCount>>

HandleQuitKey ==
    /\ KeyHead({"q", "ctrl_c"})
    /\ mainPc' = "exiting"
    /\ Received(Head(keyQueue))
    /\ UNCHANGED <<keyFrame, tree_cache, highlights,
                   highlight_duration_secs, offset, total_lines, drawn,
                   buildCount, renderCount>>

HandleResetKey ==
    /\ KeyHead({"r"})
    /\ Render(HlClear(highlights), offset, tree_cache, now)
    /\ Received("r")
    /\ UNCHANGED <<keyFrame, mainPc, highlight_duration_secs>>

ScrollBy(code, off, h) ==
    CASE code = "Up" -> ScrollUp(off, 1)
      [] code = "Down" -> ScrollDown(off, 1)
      [] code = "PageUp" -> ScrollUp(off, h)
      [] code = "PageDown" -> ScrollDown(off, h)
      [] code = "Home" -> ScrollHome(off)
      [] code = "End" -> ScrollEnd(off)

HandleScrollKey ==
    /\ KeyHead({"Up", "Down", "PageUp", "PageDown", "Home", "End"})
    /\ Render(highlights,
              ScrollBy(Head(keyQueue), offset, VisibleHeight(termRows)),
              tree_cache, now)
    /\ Received(Head(keyQueue))
    /\ UNCHANGED <<keyFrame, mainPc, highlight_duration_secs>>

PlusDurationUnclamped(d) == d + 1
PlusDuration(d) == IF d < MaxDurationSecs THEN d + 1 ELSE d
MinusDuration(d) == IF d > 0 THEN d - 1 ELSE d

HandlePlusKey ==
    /\ KeyHead({"+"})
    /\ highlight_duration_secs' = PlusDuration(highlight_duration_secs)
    /\ Render(IF highlight_duration_secs < MaxDurationSecs
              THEN HlSetDuration(highlights, highlight_duration_secs + 1)
              ELSE highlights,
              offset, tree_cache, now)
    /\ Received("+")
    /\ UNCHANGED <<keyFrame, mainPc>>

HandleMinusKey ==
    /\ KeyHead({"-"})
    /\ highlight_duration_secs' = MinusDuration(highlight_duration_secs)
    /\ Render(IF highlight_duration_secs > 0
              THEN HlSetDuration(highlights, highlight_duration_secs - 1)
              ELSE HlSetDuration(highlights, 0),
              offset, tree_cache, now)
    /\ Received("-")
    /\ UNCHANGED <<keyFrame, mainPc>>

HandleResizeIgnored ==
    /\ KeyHead({"Resize"})
    /\ Received("Resize")
    /\ UNCHANGED <<keyFrame, mainPc, tree_cache, highlights,
                   highlight_duration_secs, offset, total_lines, drawn,
                   buildCount, renderCount>>

HandleResize ==
    /\ KeyHead({"Resize"})
    /\ Render(highlights, offset, tree_cache, now)
    /\ Received("Resize")
    /\ UNCHANGED <<keyFrame, mainPc, highlight_duration_secs>>

HandleIgnoredKey ==
    /\ KeyHead({"other"})
    /\ Received("other")
    /\ UNCHANGED <<keyFrame, mainPc, tree_cache, highlights,
                   highlight_duration_secs, offset, total_lines, drawn,
                   buildCount, renderCount>>

\* recv(key_rx) yields Err once the input thread is gone and the queue is
\* empty; the arm `_ => {}` takes it and the loop goes round again.
HandleKeyClosed ==
    /\ mainPc = "running"
    /\ keyQueue = <<>>
    /\ ~KeySenderAlive
    /\ lastEvent' = "key_closed"
    /\ UNCHANGED <<mainVars, inputVars, chanVars, envVars, appVars, drawn,
                   stderrLog, handled, changedHandled, buildCount,
                   renderCount, messageCount>>

TickUnconditional ==
    /\ mainPc = "running"
    /\ ~FsReady
    /\ ~KeyReady
    /\ mainPc' = "exiting"
    /\ lastEvent' = "interrupt"
    /\ UNCHANGED <<shutdown, inputVars, chanVars, envVars, appVars, drawn,
                   stderrLog, handled, changedHandled, buildCount,
                   renderCount, messageCount>>

\* default(100ms): taken only when neither receive became ready.
Tick ==
    /\ mainPc = "running"
    /\ ~FsReady
    /\ ~KeyReady
    /\ mainPc' = IF interrupted THEN "exiting" ELSE "running"
    /\ lastEvent' = IF interrupted THEN "interrupt" ELSE "tick"
    /\ UNCHANGED <<shutdown, inputVars, chanVars, envVars, appVars, drawn,
                   stderrLog, handled, changedHandled, buildCount,
                   renderCount, messageCount>>

StoreShutdownSkipped ==
    /\ mainPc = "exiting"
    /\ mainPc' = "joining"
    /\ UNCHANGED <<shutdown, inputVars, chanVars, envVars, appVars, obsVars>>

StoreShutdown ==
    /\ mainPc = "exiting"
    /\ shutdown' = TRUE
    /\ mainPc' = "joining"
    /\ UNCHANGED <<inputVars, chanVars, envVars, appVars, obsVars>>

JoinResultSwallowed(ipc) == "done"
JoinResult(ipc) == IF ipc = "panicked" THEN "panicked" ELSE "done"

JoinInput ==
    /\ mainPc = "joining"
    /\ inputPc \in {"done", "panicked"}
    /\ mainPc' = JoinResult(inputPc)
    /\ UNCHANGED <<shutdown, inputVars, chanVars, envVars, appVars, obsVars>>

\* The main thread when every kind of event arrives and no producer dies.
MainStep ==
    \/ InitialRender
    \/ HandleChanged
    \/ HandleRootDeleted
    \/ HandleWatchError
    \/ HandleQuitKey
    \/ HandleResetKey
    \/ HandleScrollKey
    \/ HandlePlusKey
    \/ HandleMinusKey
    \/ HandleResize
    \/ HandleIgnoredKey
    \/ Tick
    \/ StoreShutdown
    \/ JoinInput

\* The main thread when producers may die and only ShutdownKeyEvents and
\* ShutdownWatchEvents arrive (the other handlers are never enabled).
ShutdownMainStep ==
    \/ InitialRender
    \/ HandleChanged
    \/ HandleRootDeleted
    \/ HandleFsClosed
    \/ HandleQuitKey
    \/ HandleIgnoredKey
    \/ HandleKeyClosed
    \/ Tick
    \/ StoreShutdown
    \/ JoinInput

\* -------------------------------------------------- input thread actions
inputFrame == <<mainVars, chanVars, envVars, appVars, obsVars>>
inputFrameNoKeys == <<mainVars, fsQueue, fsAlive, fsSent, envVars, appVars,
                      obsVars>>

InputCheckLeaving ==
    /\ inputPc = "check"
    /\ inputPc' = "done"
    /\ UNCHANGED <<keysRead, inputFrame>>
InputCheck ==
    /\ inputPc = "check"
    /\ inputPc' = IF shutdown THEN "done" ELSE "poll"
    /\ UNCHANGED <<keysRead, inputFrame>>

\* event::poll(100ms) returns Ok(false) or Err: unwrap_or(false).
InputPollTimeout ==
    /\ inputPc = "poll"
    /\ inputPc' = "check"
    /\ UNCHANGED <<keysRead, inputFrame>>

InputPollReady ==
    /\ inputPc = "poll"
    /\ keysRead < MaxKeys
    /\ inputPc' = "read"
    /\ UNCHANGED <<keysRead, inputFrame>>

InputReadOk ==
    /\ inputPc = "read"
    /\ keysRead' = keysRead + 1
    /\ inputPc' = "send"
    /\ UNCHANGED inputFrame

InputReadErr ==
    /\ inputPc = "read"
    /\ keysRead' = keysRead + 1
    /\ inputPc' = "check"
    /\ UNCHANGED inputFrame

InputSendOf(events) ==
    /\ inputPc = "send"
    /\ \E e \in events : keyQueue' = Append(keyQueue, e)
    /\ inputPc' = "check"
    /\ UNCHANGED <<keysRead, inputFrameNoKeys>>

InputSend == InputSendOf(KeyEvents)
ShutdownInputSend == InputSendOf(ShutdownKeyEvents)

\* A panic inside the terminal library's poll or read unwinds the thread;
\* key_tx is dropped with the closure.
InputPanic ==
    /\ inputPc \in {"poll", "read"}
    /\ inputPc' = "panicked"
    /\ UNCHANGED <<keysRead, inputFrame>>

InputStep ==
    \/ InputCheck
    \/ InputPollTimeout
    \/ InputPollReady
    \/ InputReadOk
    \/ InputReadErr
    \/ InputSend

ShutdownInputStep ==
    \/ InputCheck
    \/ InputPollTimeout
    \/ InputPollReady
    \/ InputReadOk
    \/ InputReadErr
    \/ ShutdownInputSend

\* ---------------------------------------------------- environment actions
Returned == mainPc \in {"done", "panicked"}
envFrame == <<mainVars, inputVars, keyQueue, appVars, obsVars>>

WatcherSendOf(events) ==
    /\ ~Returned
    /\ fsAlive
    /\ fsSent < MaxFsEvents
    /\ \E e \in events : fsQueue' = Append(fsQueue, e)
    /\ fsSent' = fsSent + 1
    /\ UNCHANGED <<fsAlive, envVars, envFrame>>

WatcherSend == WatcherSendOf(WatchEvents)
ShutdownWatcherSend == WatcherSendOf(ShutdownWatchEvents)

WatcherDies ==
    /\ ~Returned
    /\ fsAlive
    /\ fsAlive' = FALSE
    /\ UNCHANGED <<fsQueue, fsSent, envVars, envFrame>>

InterruptSignal ==
    /\ ~Returned
    /\ ~interrupted
    /\ interrupted' = TRUE
    /\ UNCHANGED <<quiet, now, termRows, fsTree, unitVars, fsQueue, fsAlive,
                   fsSent, envFrame>>

\* Every kind of event arrives; no producer dies and no signal is raised.
Next == MainStep \/ InputStep \/ WatcherSend

Spec == Init /\ [][Next]_vars

\* Producers may die and the interrupt signal may be raised.
ShutdownNext ==
    \/ ShutdownMainStep
    \/ ShutdownInputStep
    \/ InputPanic
    \/ ShutdownWatcherSend
    \/ WatcherDies
    \/ InterruptSignal

\* No watch error is delivered here, so the quiet option has no effect.
ShutdownInit == Init /\ ~quiet

\* The scheduler runs both threads; nothing obliges the environment to act.
ShutdownSpec ==
    /\ ShutdownInit
    /\ [][ShutdownNext]_vars
    /\ WF_vars(ShutdownMainStep)
    /\ WF_vars(ShutdownInputStep)

\* The two receive arms of select!.  When both are ready select! picks one
\* at random, so neither arm is passed over for ever; the default arm and
\* the steps outside the loop are the rest of the main thread.
FsArm == HandleChanged \/ HandleRootDeleted \/ HandleFsClosed
KeyArm == HandleQuitKey \/ HandleIgnoredKey \/ HandleKeyClosed
MainRest == InitialRender \/ Tick \/ StoreShutdown \/ JoinInput
SelectSpec ==
    /\ ShutdownInit
    /\ [][ShutdownNext]_vars
    /\ WF_vars(FsArm)
    /\ WF_vars(KeyArm)
    /\ WF_vars(MainRest)
    /\ WF_vars(ShutdownInputStep)

\* ============================================ text handed to the terminal
\* Text is a sequence of code points.
MaxTextLen == 2         \* code points of a name or a path
ESC == 27
CR == 13
LF == 10
TAB == 9
DEL == 127
NEL == 133              \* U+0085, a control character above 0x7F
Chars == {ESC, CR, LF, TAB, DEL, NEL, 97}
TextsOfLen(n) == [1..n -> Chars]
Texts == UNION {TextsOfLen(n) : n \in 0..MaxTextLen}
ShortTexts == UNION {TextsOfLen(n) : n \in 0..1}

\* char::is_control: the general category Cc.
IsControl(c) == c \in 0..31 \/ c \in 127..159
HexDigit(n) == IF n < 10 THEN 48 + n ELSE 55 + n
RECURSIVE UpperHex(_)
UpperHex(n) ==
    IF n < 16 THEN <<HexDigit(n)>>
    ELSE UpperHex(n \div 16) \o <<HexDigit(n % 16)>>
SanitizeChar(c) ==
    CASE c = LF -> <<92, 110>>                         \* "\n" as two chars
      [] c = CR -> <<92, 114>>                         \* "\r"
      [] c = TAB -> <<92, 116>>                        \* "\t"
      [] c \notin {LF, CR, TAB} /\ IsControl(c) ->
            IF c <= 255
            THEN <<92, 120, HexDigit(c \div 16), HexDigit(c % 16)>>
            ELSE <<92, 117, 123>> \o UpperHex(c) \o <<125>>
      [] OTHER -> <<c>>
RECURSIVE sanitize_terminal_text(_)
sanitize_terminal_text(input) ==
    IF input = <<>> THEN <<>>
    ELSE SanitizeChar(Head(input)) \o sanitize_terminal_text(Tail(input))

\* entry_to_line: the text of the spans of one entry, in order.  An entry
\* is [name, prefix, is_dir, is_symlink, symlink_target, error]; the two
\* options are <<>> (None) or <<text>>; the prefix is empty or the
\* connector of a last entry.
EntryToLine(e, use_color, in_changed) ==
    LET is_changed == use_color /\ in_changed
        safe_name == sanitize_terminal_text(e.name)
        Arrow == <<32, 45, 62, 32>>                    \* " -> "
        target == IF e.symlink_target # <<>>
                  THEN Arrow \o sanitize_terminal_text(e.symlink_target[1])
                  ELSE <<>>
    IN e.prefix \o
       (IF is_changed
           THEN safe_name \o (IF e.is_symlink THEN target ELSE <<>>)
        ELSE IF e.error # <<>>
           THEN safe_name \o <<32, 91>> \o sanitize_terminal_text(e.error[1])
                \o <<93>>
        ELSE IF e.is_symlink
           THEN safe_name \o target
        ELSE safe_name)

StatusBarLine(watched_path, entry_info, last_change_text) ==
    LET WatchingLit == <<32, 87, 97, 116, 99, 104, 105, 110, 103, 58, 32>>
        BarSep == <<32, 32, 124, 32, 32>>              \* "  |  "
        LastChangeLit == <<76, 97, 115, 116, 32, 99, 104, 97, 110, 103, 101,
                           58, 32>>
        NoChangesLit == <<78, 111, 32, 99, 104, 97, 110, 103, 101, 115, 32,
                          121, 101, 116>>
        change_text == IF last_change_text # <<>>
                       THEN LastChangeLit
                            \o sanitize_terminal_text(last_change_text[1])
                       ELSE NoChangesLit
    IN WatchingLit \o sanitize_terminal_text(watched_path) \o BarSep
       \o sanitize_terminal_text(entry_info) \o BarSep \o change_text

\* The lines the RootDeleted arm hands to render_message.
DeletedMessage(watched_path) ==
    LET DeletedLit == <<68, 105, 114, 101, 99, 116, 111, 114, 121, 32, 100,
                        101, 108, 101, 116, 101, 100, 58, 32>>
        ExitingLit == <<69, 120, 105, 116, 105, 110, 103, 46, 46, 46>>
    IN <<DeletedLit \o watched_path, ExitingLit>>

Options(S) == {<<>>} \cup {<<x>> : x \in S}
TextEntries ==
    {[name |-> n, prefix |-> pre, is_dir |-> d, is_symlink |-> l,
      symlink_target |-> tg, error |-> er] :
        n \in Texts, pre \in {<<>>, <<9492, 9472, 9472, 32>>}, d \in BOOLEAN,
        l \in BOOLEAN, tg \in Options({<<ESC>>}), er \in Options({<<LF>>})}
TextCalls ==
    {[op |-> "entry_to_line", entry |-> e, use_color |-> c, changed |-> ch] :
        e \in TextEntries, c \in BOOLEAN, ch \in BOOLEAN}
    \cup {[op |-> "status_bar_line", watched_path |-> w, entry_info |-> i,
           last_change |-> lc] :
            w \in Texts, i \in ShortTexts, lc \in Options(ShortTexts)}
    \cup {[op |-> "render_message", watched_path |-> w] : w \in Texts}

TextInit ==
    /\ LoopInit /\ ~quiet
    /\ call \in TextCalls /\ ret = <<>>
    /\ GuardIdle /\ TrackerIdle /\ ScrollIdle /\ WalkIdle

\* Each action hands the lines of one call to terminal.draw.
CallEntryToLine ==
    /\ call.op = "entry_to_line"
    /\ ret = <<>>
    /\ ret' = <<<<EntryToLine(call.entry, call.use_color, call.changed)>>>>
    /\ UNCHANGED <<call, loopVars, objVars>>

CallStatusBarLine ==
    /\ call.op = "status_bar_line"
    /\ ret = <<>>
    /\ ret' = <<<<StatusBarLine(call.watched_path, call.entry_info,
                                call.last_change)>>>>
    /\ UNCHANGED <<call, loopVars, objVars>>

CallRenderMessage ==
    /\ call.op = "render_message"
    /\ ret = <<>>
    /\ ret' = <<DeletedMessage(call.watched_path)>>
    /\ UNCHANGED <<call, loopVars, objVars>>

TextNext == CallEntryToLine \/ CallStatusBarLine \/ CallRenderMessage
TextSpec == TextInit /\ [][TextNext]_vars

\* ------------------------------------------------- the styles of a line
\* A Style is its foreground colour (<<>> when none is set) and whether the
\* modifier BOLD is added; a span is a text with a style.
DefaultStyle == [fg |-> <<>>, bold |-> FALSE]
DIR_STYLE == [fg |-> <<"Blue">>, bold |-> TRUE]
SYMLINK_STYLE == [fg |-> <<"Cyan">>, bold |-> FALSE]
ERROR_STYLE == [fg |-> <<"Red">>, bold |-> FALSE]
PREFIX_STYLE == [fg |-> <<"White">>, bold |-> FALSE]
CHANGED_STYLE == [fg |-> <<"Cyan">>, bold |-> TRUE]
CHANGED_DIR_STYLE == [fg |-> <<"Rgb(64, 224, 208)">>, bold |-> TRUE]
SpanStyled(content, style) == [content |-> content, style |-> style]
SpanRaw(content) == [content |-> content, style |-> DefaultStyle]

\* entry_to_line: the spans of one entry.
NameSpansErrorLast(e, use_color, is_changed, safe_name, target) ==
    IF is_changed
       THEN LET style == IF e.is_dir THEN CHANGED_DIR_STYLE ELSE CHANGED_STYLE
            IN <<SpanStyled(safe_name, style)>>
               \o (IF e.is_symlink /\ e.symlink_target # <<>>
                   THEN <<SpanStyled(target, style)>> ELSE <<>>)
    ELSE IF e.is_symlink
       THEN <<IF use_color THEN SpanStyled(safe_name, SYMLINK_STYLE)
              ELSE SpanRaw(safe_name)>>
            \o (IF e.symlink_target # <<>> THEN <<SpanRaw(target)>> ELSE <<>>)
    ELSE IF e.is_dir
       THEN <<IF use_color THEN SpanStyled(safe_name, DIR_STYLE)
              ELSE SpanRaw(safe_name)>>
    ELSE IF e.error # <<>>
       THEN LET text == safe_name \o <<32, 91>>
                        \o sanitize_terminal_text(e.error[1]) \o <<93>>
            IN <<IF use_color THEN SpanStyled(text, ERROR_STYLE)
                 ELSE SpanRaw(text)>>
    ELSE <<SpanRaw(safe_name)>>
NameSpans(e, use_color, is_changed, safe_name, target) ==
    IF is_changed
       THEN LET style == IF e.is_dir THEN CHANGED_DIR_STYLE ELSE CHANGED_STYLE
            IN <<SpanStyled(safe_name, style)>>
               \o (IF e.is_symlink /\ e.symlink_target # <<>>
                   THEN <<SpanStyled(target, style)>> ELSE <<>>)
    ELSE IF e.error # <<>>
       THEN LET text == safe_name \o <<32, 91>>
                        \o sanitize_terminal_text(e.error[1]) \o <<93>>
            IN <<IF use_color THEN SpanStyled(text, ERROR_STYLE)
                 ELSE SpanRaw(text)>>
    ELSE IF e.is_symlink
       THEN <<IF use_color THEN SpanStyled(safe_name, SYMLINK_STYLE)
              ELSE SpanRaw(safe_name)>>
            \o (IF e.symlink_target # <<>> THEN <<SpanRaw(target)>> ELSE <<>>)
    ELSE IF e.is_dir
       THEN <<IF use_color THEN SpanStyled(safe_name, DIR_STYLE)
              ELSE SpanRaw(safe_name)>>
    ELSE <<SpanRaw(safe_name)>>
EntrySpans(e, use_color, in_changed) ==
    LET is_changed == use_color /\ in_changed
        safe_name == sanitize_terminal_text(e.name)
        target == IF e.symlink_target # <<>>
                  THEN <<32, 45, 62, 32>>              \* " -> "
                       \o sanitize_terminal_text(e.symlink_target[1])
                  ELSE <<>>
    IN (IF e.prefix # <<>>
        THEN <<IF use_color THEN SpanStyled(e.prefix, PREFIX_STYLE)
               ELSE SpanRaw(e.prefix)>>
        ELSE <<>>)
       \o NameSpans(e, use_color, is_changed, safe_name, target)

\* tree_to_lines over one entry, with the entry's path in changed_paths or
\* not.
StyleEntries ==
    {[name |-> n, prefix |-> pre, is_dir |-> d, is_symlink |-> l,
      symlink_target |-> tg, error |-> er] :
        n \in {<<97>>, <<ESC>>}, pre \in {<<>>, <<9492, 9472, 9472, 32>>},
        d \in BOOLEAN, l \in BOOLEAN, tg \in Options({<<98>>}),
        er \in Options({<<LF>>})}
StyleInit ==
    /\ LoopInit /\ ~quiet
    /\ \E e \in StyleEntries, c \in BOOLEAN, ch \in BOOLEAN :
         call = [op |-> "tree_to_lines", entry |-> e, use_color |-> c,
                 changed |-> ch]
    /\ ret = <<>>
    /\ GuardIdle /\ TrackerIdle /\ ScrollIdle /\ WalkIdle

CallTreeToLines ==
    /\ call.op = "tree_to_lines"
    /\ ret = <<>>
    /\ ret' = <<<<EntrySpans(call.entry, call.use_color, call.changed)>>>>
    /\ UNCHANGED <<call, loopVars, objVars>>

StyleNext == CallTreeToLines
StyleSpec == StyleInit /\ [][StyleNext]_vars

\* ======================================================= the window title
\* A str is a sequence of chars; its len() and its slices count the bytes
\* of its UTF-8 encoding.  The chars of a title here are 'a' (one byte, one
\* column), U+00E9 (two bytes, one column) and U+5B57 (three bytes, two
\* columns).
MaxTitleLen == 6        \* chars of a title
MaxCols == 7            \* the bound max_cols
TitleChars == {97, 233, 23383}
Titles == UNION {[1..n -> TitleChars] : n \in 0..MaxTitleLen}
Utf8Len(c) ==
    IF c < 128 THEN 1 ELSE IF c < 2048 THEN 2 ELSE IF c < 65536 THEN 3 ELSE 4
RECURSIVE ByteLen(_)
ByteLen(s) == IF s = <<>> THEN 0 ELSE Utf8Len(Head(s)) + ByteLen(Tail(s))
\* str::is_char_boundary: byte offset n is where a char of s starts or ends.
IsCharBoundary(s, n) == \E k \in 0..Len(s) : ByteLen(SubSeq(s, 1, k)) = n
\* &s[from..to] for offsets on char boundaries.
ByteSlice(s, from, to) ==
    LET i == CHOOSE k \in 0..Len(s) : ByteLen(SubSeq(s, 1, k)) = from
        j == CHOOSE k \in 0..Len(s) : ByteLen(SubSeq(s, 1, k)) = to
    IN SubSeq(s, i + 1, j)
Dots(n) == [k \in 1..n |-> 46]

\* truncate_middle: the String it returns, or the panic of a slice that
\* does not lie on char boundaries.
StringOf(text) == [panicked |-> FALSE, text |-> text]
SlicePanic == [panicked |-> TRUE, text |-> <<>>]
truncate_middle(input, max_cols) ==
    IF ByteLen(input) <= max_cols THEN StringOf(input)
    ELSE IF max_cols = 0 THEN StringOf(<<>>)
    ELSE IF max_cols <= 3 THEN StringOf(Dots(max_cols))
    ELSE LET ellipsis == Dots(3)
             keep == max_cols - ByteLen(ellipsis)
             prefix_len == (keep \div 2) + (keep % 2)
             suffix_len == keep \div 2
         IN IF ~IsCharBoundary(input, prefix_len)
               \/ ~IsCharBoundary(input, ByteLen(input) - suffix_len)
            THEN SlicePanic
            ELSE StringOf(ByteSlice(input, 0, prefix_len) \o ellipsis
                          \o ByteSlice(input, ByteLen(input) - suffix_len,
                                       ByteLen(input)))

TitleInit ==
    /\ LoopInit /\ ~quiet
    /\ \E s \in Titles, n \in 0..MaxCols :
         call = [op |-> "truncate_middle", input |-> s, max_cols |-> n]
    /\ ret = <<>>
    /\ GuardIdle /\ TrackerIdle /\ ScrollIdle /\ WalkIdle

CallTruncateMiddle ==
    /\ call.op = "truncate_middle"
    /\ ret = <<>>
    /\ ret' = <<truncate_middle(call.input, call.max_cols)>>
    /\ UNCHANGED <<call, loopVars, objVars>>

TitleNext == CallTruncateMiddle
TitleSpec == TitleInit /\ [][TitleNext]_vars

\* --------------------------------------------- the title escape sequence
\* run_app writes ESC ] 0 ; title BEL to stdout unless titles are off or
\* the terminal has no column.  The names of the watched directory hold
\* control characters of both ranges, a space, 'a' and U+00E9.
BEL == 7
NameChars == {ESC, BEL, LF, NEL, 32, 97, 233}
DirNames == UNION {[1..n -> NameChars] : n \in 1..MaxTextLen}
TermWidths == {0, 2, 5, 8, 13, 14, 15, 80}
SanitizeTitleAsciiOnly(input) ==
    SelectSeq(input, LAMBDA c : ~(c \in 0..31 \/ c = DEL) \/ c = 32)
sanitize_title(input) == SelectSeq(input, LAMBDA c : ~IsControl(c) \/ c = 32)
\* None is <<>>, Some(title) is <<title>>; a panic of truncate_middle goes
\* through.
build_terminal_title(display, max_cols) ==
    IF max_cols = 0 THEN [panicked |-> FALSE, title |-> <<>>]
    ELSE LET LiveTreeOf == <<76, 105, 118, 101, 32, 84, 114, 101, 101, 32,
                             111, 102, 32>>
             raw_title == LiveTreeOf \o display
             sanitized == sanitize_title(raw_title)
             cut == truncate_middle(sanitized, max_cols)
         IN [panicked |-> cut.panicked,
             title |-> IF cut.panicked THEN <<>> ELSE <<cut.text>>]
\* The bytes on stdout, as chars.
OscOpen == <<ESC, 93, 48, 59>>                         \* ESC ] 0 ;
WriteTitle(display, term_width, no_title) ==
    IF no_title THEN [panicked |-> FALSE, written |-> <<>>]
    ELSE LET built == build_terminal_title(display, term_width)
         IN [panicked |-> built.panicked,
             written |-> IF built.title = <<>> THEN <<>>
                         ELSE OscOpen \o built.title[1] \o <<BEL>>]

EscapeInit ==
    /\ LoopInit /\ ~quiet
    /\ \E d \in DirNames, w \in TermWidths, off \in BOOLEAN :
         call = [op |-> "set_title", display |-> d, term_width |-> w,
                 no_title |-> off]
    /\ ret = <<>>
    /\ GuardIdle /\ TrackerIdle /\ ScrollIdle /\ WalkIdle

CallSetTitle ==
    /\ call.op = "set_title"
    /\ ret = <<>>
    /\ ret' = <<WriteTitle(call.display, call.term_width, call.no_title)>>
    /\ UNCHANGED <<call, loopVars, objVars>>

EscapeNext == CallSetTitle
EscapeSpec == EscapeInit /\ [][EscapeNext]_vars

\* ===================================================== the terminal guard
\* guard.pc: start | hooked | running | returned | unwinding | exited |
\*           aborted | failed.  raw: the terminal is in raw mode with the
\* cursor hidden.  alive: a TerminalGuard exists.  acquired and released
\* count the times the terminal state was entered and left.
guardFrame == <<call, ret, tracker, touched, clock, scroll, walk>>
PanicStrategies == {"unwind", "abort"}

GuardStart == [pc |-> "start", hook |-> FALSE, alive |-> FALSE, raw |-> FALSE,
               acquired |-> 0, released |-> 0, hook_ran |-> FALSE]

GuardInit ==
    /\ LoopInit /\ ~quiet
    /\ guard = GuardStart
    /\ CallIdle /\ TrackerIdle /\ ScrollIdle /\ WalkIdle

\* What Drop and the panic hook both do: disable_raw_mode, clear, show the
\* cursor; neither looks at whether the other has run.
Release(g) == [g EXCEPT !.raw = FALSE, !.released = g.released + 1]

InstallPanicHook ==
    /\ guard.pc = "start"
    /\ guard' = [guard EXCEPT !.hook = TRUE, !.pc = "hooked"]
    /\ UNCHANGED <<loopVars, guardFrame>>

\* TerminalGuard::new: enable_raw_mode()?, then execute!(Hide)?.
TerminalGuardNew ==
    /\ guard.pc = "hooked"
    /\ \E outcome \in {"ok", "raw_mode_err", "hide_err"} :
         guard' = CASE outcome = "ok" ->
                        [guard EXCEPT !.raw = TRUE, !.alive = TRUE,
                                      !.acquired = guard.acquired + 1,
                                      !.pc = "running"]
                    [] outcome = "raw_mode_err" ->
                        [guard EXCEPT !.pc = "failed"]
                    [] outcome = "hide_err" ->
                        [guard EXCEPT !.raw = TRUE,
                                      !.acquired = guard.acquired + 1,
                                      !.pc = "failed"]
    /\ UNCHANGED <<loopVars, guardFrame>>

\* The event loop runs while the guard is held.  The hook of a panicking
\* thread runs before the thread ends, so before a join can see it ended.
GuardedLoopStep ==
    /\ guard.pc = "running"
    /\ inputPc = "panicked" => guard.hook_ran
    /\ ShutdownNext

\* The hook runs in the thread that panics, at the panic; the process then
\* aborts or the thread unwinds, as the build's panic strategy has it.
PanicHook ==
    /\ guard.pc = "running"
    /\ guard.hook
    /\ inputPc = "panicked"
    /\ ~guard.hook_ran
    /\ \E strategy \in PanicStrategies :
         guard' = [Release(guard) EXCEPT
                      !.hook_ran = TRUE,
                      !.pc = IF strategy = "abort" THEN "aborted"
                             ELSE "running"]
    /\ UNCHANGED <<loopVars, guardFrame>>

\* run returned: the scope that holds the guard ends.
RunReturns ==
    /\ guard.pc = "running"
    /\ mainPc = "done"
    /\ guard' = [guard EXCEPT !.pc = "returned"]
    /\ UNCHANGED <<loopVars, guardFrame>>

\* resume_unwind carries the input thread's panic through the scope that
\* holds the guard; it does not run the panic hook.
RunUnwinds ==
    /\ guard.pc = "running"
    /\ mainPc = "panicked"
    /\ guard' = [guard EXCEPT !.pc = "unwinding"]
    /\ UNCHANGED <<loopVars, guardFrame>>

\* Drop for TerminalGuard, at the end of the scope or while unwinding.
DropGuard ==
    /\ guard.pc \in {"returned", "unwinding"}
    /\ guard.alive
    /\ guard' = [Release(guard) EXCEPT !.alive = FALSE, !.pc = "exited"]
    /\ UNCHANGED <<loopVars, guardFrame>>

GuardNext ==
    \/ InstallPanicHook
    \/ TerminalGuardNew
    \/ GuardedLoopStep
    \/ PanicHook
    \/ RunReturns
    \/ RunUnwinds
    \/ DropGuard

GuardSpec == GuardInit /\ [][GuardNext]_vars

\* ================================================== the highlight tracker
\* The operations of HighlightTracker called one after the other, each at
\* the instant the caller read from the monotonic clock.
MaxClock == 4           \* the latest instant of a call
TrackerPaths == {"a", "b"}
Durations == {0, 2, InitialDurationSecs}
trackerFrame == <<guard, scroll, walk>>

TrackerInit ==
    /\ LoopInit /\ ~quiet
    /\ \E d \in Durations : tracker = HighlightTrackerNew(d)
    /\ touched = EmptyEntries
    /\ clock = 0
    /\ CallIdle /\ GuardIdle /\ ScrollIdle /\ WalkIdle

\* Instant::now() of the caller: not before the previous reading.
ClockReads == {t \in clock..(clock + 1) : t <= MaxClock}

\* touched[p]: first and at are the instants of the first and of the latest
\* insert of p since the last clear, n tells one insert from several, fixed
\* tells that the duration has not been set since the latest insert.
Touch(tc, p, t) ==
    [q \in DOMAIN tc \cup {p} |->
        IF q # p THEN tc[q]
        ELSE IF p \in DOMAIN tc
             THEN [first |-> tc[p].first, at |-> t, n |-> 2, fixed |-> TRUE]
             ELSE [first |-> t, at |-> t, n |-> 1, fixed |-> TRUE]]

TrackerInsert ==
    /\ \E p \in TrackerPaths, t \in ClockReads :
        /\ clock' = t
        /\ tracker' = HlInsert(tracker, p, t)
        /\ touched' = Touch(touched, p, t)
        /\ call' = [op |-> "insert", path |-> p]
    /\ ret' = <<>>
    /\ UNCHANGED <<loopVars, trackerFrame>>

TrackerActiveSet ==
    /\ \E t \in ClockReads :
        /\ clock' = t
        /\ tracker' = HlRetain(tracker, t)
        /\ ret' = <<ActiveSet(tracker, t)>>
    /\ call' = [op |-> "active_set"]
    /\ UNCHANGED <<touched, loopVars, trackerFrame>>

TrackerClear ==
    /\ tracker' = HlClear(tracker)
    /\ touched' = EmptyEntries
    /\ call' = [op |-> "clear"]
    /\ ret' = <<>>
    /\ UNCHANGED <<clock, loopVars, trackerFrame>>

TrackerSetDuration ==
    /\ \E d \in Durations :
        /\ d # tracker.duration
        /\ tracker' = HlSetDuration(tracker, d)
        /\ call' = [op |-> "set_duration", duration |-> d]
    /\ touched' = [p \in DOMAIN touched |-> [touched[p] EXCEPT !.fixed = FALSE]]
    /\ ret' = <<>>
    /\ UNCHANGED <<clock, loopVars, trackerFrame>>

TrackerNext ==
    \/ TrackerInsert
    \/ TrackerActiveSet
    \/ TrackerClear
    \/ TrackerSetDuration

TrackerSpec == TrackerInit /\ [][TrackerNext]_vars

\* ================================================= the loop under scripts
\* The event loop alone, with the events of a run already in its channels
\* and the input thread and the watcher silent from then on.  The duration
\* starts where a run of '+' or '-' keys has brought it.
MaxScript == 2          \* keys in the key channel at the start
DurationStarts == {0, 1, InitialDurationSecs, MaxDurationSecs - 1,
                   MaxDurationSecs}
DurationKeys == {"+", "-", "r"}
ScriptsOf(keys) == UNION {[1..n -> keys] : n \in 0..MaxScript}
FsScripts == {<<>>, <<[type |-> "Changed", paths |-> {"a", "b"}]>>}

KeysInit ==
    /\ \E d \in DurationStarts, keys \in ScriptsOf(DurationKeys),
          fs \in FsScripts : LoopInitOf(d, keys, fs)
    /\ ~quiet
    /\ UnitIdle

\* The clock of the process, between two handlers.
ClockTick ==
    /\ now < MaxTime
    /\ now' = now + 1
    /\ UNCHANGED <<mainVars, inputVars, chanVars, interrupted, quiet,
                   termRows, fsTree, unitVars, appVars, obsVars>>

KeysNext ==
    \/ InitialRender
    \/ HandleChanged
    \/ HandleResetKey
    \/ HandlePlusKey
    \/ HandleMinusKey
    \/ Tick
    \/ ClockTick

KeysSpec == KeysInit /\ [][KeysNext]_vars

\* ----------------------------------- scripts of scroll keys and resizes
\* The terminal changes size and the directory changes content at any
\* moment; a size of 0 rows leaves no row to the tree; a directory with no
\* entry kept shows no line, or only the line that tells of the cut.
ViewKeys == {"Up", "Down", "PageUp", "PageDown", "Home", "End", "Resize"}
TermSizes == {SizeErr, 0, InitTermRows, InitTermRows + 1}
FsTrees == {[shown |-> n, cut |-> c] : n \in {0, MaxShown}, c \in {0, 1}}

ViewInit ==
    /\ \E keys \in ScriptsOf(ViewKeys), fs \in FsScripts :
          LoopInitOf(InitialDurationSecs, keys, fs)
    /\ ~quiet
    /\ UnitIdle

TerminalResized ==
    /\ \E r \in TermSizes : r # termRows /\ termRows' = r
    /\ UNCHANGED <<mainVars, inputVars, chanVars, interrupted, quiet, now,
                   fsTree, unitVars, appVars, obsVars>>

TreeChanges ==
    /\ \E t \in FsTrees : t # fsTree /\ fsTree' = t
    /\ UNCHANGED <<mainVars, inputVars, chanVars, interrupted, quiet, now,
                   termRows, unitVars, appVars, obsVars>>

ViewNext ==
    \/ InitialRender
    \/ HandleChanged
    \/ HandleScrollKey
    \/ HandleResize
    \/ Tick
    \/ TerminalResized
    \/ TreeChanges

ViewSpec == ViewInit /\ [][ViewNext]_vars

\* ------------------------------------------- directories of many entries
\* The same scripts over directories whose tree has more lines than a
\* 16-bit number counts.
LongTrees ==
    {[shown |-> n, cut |-> c] :
        n \in {MaxShown, U16_MOD - 1, U16_MOD + InitTermRows}, c \in {0, 1}}

LongTreeChanges ==
    /\ \E t \in LongTrees : t # fsTree /\ fsTree' = t
    /\ UNCHANGED <<mainVars, inputVars, chanVars, interrupted, quiet, now,
                   termRows, unitVars, appVars, obsVars>>

LongViewNext ==
    \/ InitialRender
    \/ HandleChanged
    \/ HandleScrollKey
    \/ HandleResize
    \/ Tick
    \/ TerminalResized
    \/ LongTreeChanges

LongViewSpec == ViewInit /\ [][LongViewNext]_vars

\* ======================================================= the scroll state
\* The operations of ScrollState called one after the other.
MaxCalls == 4           \* calls made on the ScrollState
ScrollSteps == {1, 5, USIZE_MAX}
LineCounts == {0, 20, 100}
ViewHeights == {0, 20}
scrollFrame == <<ret, guard, tracker, touched, clock, walk>>

ScrollInit ==
    /\ LoopInit /\ ~quiet
    /\ scroll = [offset |-> 0, total_lines |-> 0]
    /\ call = [op |-> "new", seq |-> 0]
    /\ ret = <<>>
    /\ GuardIdle /\ TrackerIdle /\ WalkIdle

CallMade(op, arg) == call' = [op |-> op, arg |-> arg, seq |-> call.seq + 1]

SsScrollUp ==
    /\ call.seq < MaxCalls
    /\ \E n \in ScrollSteps :
        /\ scroll' = [scroll EXCEPT !.offset = ScrollUp(scroll.offset, n)]
        /\ CallMade("scroll_up", n)
    /\ UNCHANGED <<loopVars, scrollFrame>>

SsScrollDown ==
    /\ call.seq < MaxCalls
    /\ \E n \in ScrollSteps :
        /\ scroll' = [scroll EXCEPT !.offset = ScrollDown(scroll.offset, n)]
        /\ CallMade("scroll_down", n)
    /\ UNCHANGED <<loopVars, scrollFrame>>

SsScrollHome ==
    /\ call.seq < MaxCalls
    /\ scroll' = [scroll EXCEPT !.offset = ScrollHome(scroll.offset)]
    /\ CallMade("scroll_home", 0)
    /\ UNCHANGED <<loopVars, scrollFrame>>

SsScrollEnd ==
    /\ call.seq < MaxCalls
    /\ scroll' = [scroll EXCEPT !.offset = ScrollEnd(scroll.offset)]
    /\ CallMade("scroll_end", 0)
    /\ UNCHANGED <<loopVars, scrollFrame>>

SsUpdateTotalAndClamp ==
    /\ call.seq < MaxCalls
    /\ \E total \in LineCounts, view_height \in ViewHeights :
        /\ scroll' = [offset |-> UpdateTotalAndClamp(scroll.offset, total,
                                                     view_height),
                      total_lines |-> total]
        /\ CallMade("update_total_and_clamp", view_height)
    /\ UNCHANGED <<loopVars, scrollFrame>>

ScrollNext ==
    \/ SsScrollUp
    \/ SsScrollDown
    \/ SsScrollHome
    \/ SsScrollEnd
    \/ SsUpdateTotalAndClamp

ScrollSpec == ScrollInit /\ [][ScrollNext]_vars

\* ============================================================= the layout
\* The raw entries of a walk are kept as their depths, in display order: a
\* pre-order walk starts at depth 1 and goes at most one level deeper from
\* one entry to the next.
MaxEntries == 5         \* entries of a walk
RawWalks ==
    UNION {{r \in [1..n -> 1..n] :
               /\ n > 0 => r[1] = 1
               /\ \A k \in 2..n : r[k] <= r[k - 1] + 1} : n \in 0..MaxEntries}

\* is_last_sibling: the scan from j on for an entry at depth `depth`.
RECURSIVE ScanFrom(_, _, _)
ScanFrom(raw, depth, j) ==
    IF j > Len(raw) THEN TRUE
    ELSE IF raw[j] = depth THEN FALSE
    ELSE IF raw[j] < depth THEN TRUE
    ELSE ScanFrom(raw, depth, j + 1)
is_last_siblingAnywhere(raw, i) ==
    \A j \in (i + 1)..Len(raw) : raw[j] # raw[i]
is_last_sibling(raw, i) == ScanFrom(raw, raw[i], i + 1)

\* compute_prefixes: one entry, with the stack ancestor_is_last as the
\* entries before it left it.  A prefix is text: four code points for each
\* level.
Resized(stack, depth) ==
    IF Len(stack) < depth
    THEN stack \o [k \in 1..(depth - Len(stack)) |-> FALSE]
    ELSE SubSeq(stack, 1, depth)
RECURSIVE Continuation(_, _, _)
Continuation(stack, d, depth) ==
    IF d >= depth THEN <<>>
    ELSE (IF d <= Len(stack) /\ stack[d]
          THEN <<32, 32, 32, 32>>                      \* "    "
          ELSE <<9474, 32, 32, 32>>)                   \* "\u{2502}   "
         \o Continuation(stack, d + 1, depth)
PrefixOf(stack, depth, is_last) ==
    Continuation(stack, 1, depth)
    \o (IF depth > 0
        THEN (IF is_last THEN <<9492, 9472, 9472, 32>>  \* "\u{2514}\u{2500}\u{2500} "
              ELSE <<9500, 9472, 9472, 32>>)            \* "\u{251c}\u{2500}\u{2500} "
        ELSE <<>>)
RecordedDropped(stack, depth, is_last) == stack
Recorded(stack, depth, is_last) ==
    IF Len(stack) < depth THEN Append(stack, is_last)
    ELSE IF depth > 0 THEN [stack EXCEPT ![depth] = is_last]
    ELSE stack

RECURSIVE compute_prefixes(_, _, _)
compute_prefixes(entries, i, stack) ==
    IF i > Len(entries) THEN entries
    ELSE LET e == entries[i]
             st == Resized(stack, e.depth)
             done == [entries EXCEPT
                        ![i].prefix = PrefixOf(st, e.depth, e.is_last)]
         IN compute_prefixes(done, i + 1, Recorded(st, e.depth, e.is_last))

compute_tree_structure(raw) ==
    compute_prefixes([i \in 1..Len(raw) |->
                         [depth |-> raw[i],
                          is_last |-> is_last_sibling(raw, i),
                          prefix |-> <<>>]],
                     1, <<>>)

LayoutInit ==
    /\ LoopInit /\ ~quiet
    /\ \E r \in RawWalks : call = [op |-> "compute_tree_structure", raw |-> r]
    /\ ret = <<>>
    /\ GuardIdle /\ TrackerIdle /\ ScrollIdle /\ WalkIdle

CallComputeTreeStructure ==
    /\ call.op = "compute_tree_structure"
    /\ ret = <<>>
    /\ ret' = <<compute_tree_structure(call.raw)>>
    /\ UNCHANGED <<call, loopVars, objVars>>

LayoutNext == CallComputeTreeStructure
LayoutSpec == LayoutInit /\ [][LayoutNext]_vars

\* =========================================================== the tree walk
\* build_tree over a directory tree.  A name is text; a path is the
\* sequence of names below the root.  A directory tree gives every slot of
\* SlotName a kind: absent, file, dir, baddir (a directory that cannot be
\* read), link_root (a symlink to the root), link_a (a symlink to slot 2)
\* or link_broken (a symlink to nothing).  Slot 0 is the root.
MaxWalkDepth == 4       \* directory lists open at once
MaxKept == 2            \* the max_entries of a capped build
MaxWalkSteps == 20      \* turns of the loop of one build

NameNodeModules == <<110, 111, 100, 101, 95, 109, 111, 100, 117, 108, 101, 115>>
SlotName == << <<66>>, <<97>>, <<46, 99>>, NameNodeModules, <<100>>,
               <<108>>, <<120>>, <<121>>, <<104>>, <<109>> >>
SlotParent == <<0, 0, 0, 0, 1, 1, 5, 2, 3, 4>>
\* The order read_dir lists the slots of a directory in: none in particular.
ReadDirOrder == <<6, 3, 1, 10, 4, 9, 2, 8, 5, 7>>

DirectoryTrees ==
    {[root |-> "baddir", slot |-> [s \in 1..10 |-> "absent"]]}
    \cup
    {t \in {[root |-> "dir",
             slot |-> <<b, a, c, n, d, l, x,
                        IF a = "dir" THEN "file" ELSE "absent",
                        IF c = "dir" THEN "file" ELSE "absent",
                        IF n = "dir" THEN "file" ELSE "absent">>] :
               b \in {"file", "dir", "baddir"},
               a \in {"file", "dir"},
               c \in {"absent", "file", "dir", "link_broken"},
               n \in {"absent", "dir"},
               d \in {"absent", "file", "dir"},
               l \in {"absent", "link_root", "link_a", "link_broken"},
               x \in {"absent", "file"}} :
        /\ t.slot[1] # "dir" => t.slot[5] = "absent" /\ t.slot[6] = "absent"
        /\ t.slot[5] # "dir" => t.slot[7] = "absent"}

TreeConfigs ==
    [max_depth : {<<>>, <<1>>, <<2>>}, show_hidden : BOOLEAN,
     dirs_only : BOOLEAN, follow_symlinks : BOOLEAN,
     max_entries : {<<>>, <<MaxKept>>}]

KindOf(t, node) == IF node = 0 THEN t.root ELSE t.slot[node]
IsLink(kind) == kind \in {"link_root", "link_a", "link_broken"}
IsDirKind(kind) == kind \in {"dir", "baddir"}

\* DEFAULT_IGNORES holds literal globs; of the names here only
\* node_modules is one, and a literal glob matches the path equal to it.
IsMatch(rel_path) == rel_path = <<NameNodeModules>>

ToLowercase(name) ==
    [i \in 1..Len(name) |->
        IF name[i] \in 65..90 THEN name[i] + 32 ELSE name[i]]
RECURSIVE StrCmp(_, _)
StrCmp(a, b) ==
    IF a = <<>> /\ b = <<>> THEN "Equal"
    ELSE IF a = <<>> THEN "Less"
    ELSE IF b = <<>> THEN "Greater"
    ELSE IF Head(a) < Head(b) THEN "Less"
    ELSE IF Head(a) > Head(b) THEN "Greater"
    ELSE StrCmp(Tail(a), Tail(b))
StartsWithDot(name) == name # <<>> /\ Head(name) = 46

\* sort_cmp over two entries of a directory list: [name, is_dir], the type
\* being the one read_dir reported.
sort_cmp(a, b) ==
    IF a.is_dir # b.is_dir
    THEN (IF a.is_dir THEN "Less" ELSE "Greater")
    ELSE IF StartsWithDot(a.name) # StartsWithDot(b.name)
    THEN (IF StartsWithDot(a.name) THEN "Greater" ELSE "Less")
    ELSE StrCmp(ToLowercase(a.name), ToLowercase(b.name))

\* sort_by is a stable sort: x goes before the first entry it is less than.
RECURSIVE InsertBy(_, _)
InsertBy(x, sorted) ==
    IF sorted = <<>> THEN <<x>>
    ELSE IF sort_cmp(x, Head(sorted)) = "Less" THEN <<x>> \o sorted
    ELSE <<Head(sorted)>> \o InsertBy(x, Tail(sorted))
RECURSIVE SortBy(_)
SortBy(list) ==
    IF list = <<>> THEN <<>>
    ELSE InsertBy(list[Len(list)], SortBy(SubSeq(list, 1, Len(list) - 1)))

\* What the walker opens for the directory `node` met at `path` and
\* `depth`: its entries, sorted, or the one error of a failed read_dir.
RECURSIVE Listed(_, _, _)
Listed(t, node, k) ==
    IF k > Len(ReadDirOrder) THEN <<>>
    ELSE LET s == ReadDirOrder[k]
         IN (IF SlotParent[s] = node /\ t.slot[s] # "absent"
             THEN <<s>> ELSE <<>>) \o Listed(t, node, k + 1)
ReadDir(t, node, path, depth) ==
    IF KindOf(t, node) = "baddir"
    THEN <<[err |-> <<"permission denied">>, path |-> path, depth |-> depth]>>
    ELSE LET slots == Listed(t, node, 1)
         IN SortBy([i \in 1..Len(slots) |->
                [err |-> <<>>, slot |-> slots[i],
                 name |-> SlotName[slots[i]],
                 path |-> Append(path, SlotName[slots[i]]),
                 depth |-> depth + 1,
                 is_dir |-> IsDirKind(t.slot[slots[i]])]])

\* The walker's handle_entry: with follow_links a symlink is followed, and
\* a link to a directory that is open on the way down is a loop.  The
\* result is an error or the entry as the iterator yields it; node is the
\* directory it opens.
LinkTarget(kind) == IF kind = "link_root" THEN 0 ELSE 2
InStackNever(stack_path, node) == FALSE
InStack(stack_path, node) == \E k \in 1..Len(stack_path) : stack_path[k] = node
HandleEntry(t, follow_links, item, stack_path) ==
    LET kind == t.slot[item.slot]
        plain == [err |-> <<>>, name |-> item.name, path |-> item.path,
                  depth |-> item.depth, is_dir |-> IsDirKind(kind),
                  is_symlink |-> IsLink(kind), kind |-> kind,
                  node |-> item.slot]
    IN IF follow_links /\ IsLink(kind)
       THEN IF kind = "link_broken"
            THEN [err |-> <<"No such file or directory">>,
                  path |-> item.path, depth |-> item.depth]
            ELSE IF IsDirKind(KindOf(t, LinkTarget(kind)))
                    /\ InStack(stack_path, LinkTarget(kind))
            THEN [err |-> <<"File system loop found">>,
                  path |-> item.path, depth |-> item.depth]
            ELSE [plain EXCEPT
                    !.is_dir = IsDirKind(KindOf(t, LinkTarget(kind))),
                    !.node = LinkTarget(kind)]
       ELSE plain

\* The closure handed to filter_entry.
FilterAllows(config, dent) ==
    \/ dent.depth = 0
    \/ /\ ~(~config.show_hidden /\ StartsWithDot(dent.name))
       /\ ~IsMatch(dent.path)

\* The raw entries the loop of build_tree pushes.
RawOfEntry(dent) ==
    [depth |-> dent.depth, name |-> dent.name, path |-> dent.path,
     is_dir |-> dent.is_dir, is_symlink |-> dent.is_symlink,
     symlink_target |-> IF dent.is_symlink THEN <<dent.kind>> ELSE <<>>,
     error |-> <<>>]
RawOfErrorAsFile(e) ==
    [depth |-> e.depth, name |-> e.path[Len(e.path)], path |-> e.path,
     is_dir |-> FALSE, is_symlink |-> FALSE, symlink_target |-> <<>>,
     error |-> e.err]
RawOfError(e) ==
    [depth |-> e.depth, name |-> e.path[Len(e.path)], path |-> e.path,
     is_dir |-> TRUE, is_symlink |-> FALSE, symlink_target |-> <<>>,
     error |-> e.err]
KeepsEntryNoLinks(config, dent) ==
    ~(config.dirs_only /\ (~dent.is_dir \/ dent.is_symlink))
KeepsEntry(config, dent) == ~(config.dirs_only /\ ~dent.is_dir)

\* compute_tree_structure over the raw entries of a walk.
TreeEntries(raw) ==
    LET lay == compute_tree_structure([i \in 1..Len(raw) |-> raw[i].depth])
    IN [i \in 1..Len(raw) |->
          [name |-> raw[i].name, path |-> raw[i].path,
           depth |-> raw[i].depth, is_dir |-> raw[i].is_dir,
           is_symlink |-> raw[i].is_symlink,
           symlink_target |-> raw[i].symlink_target,
           is_last |-> lay[i].is_last, prefix |-> lay[i].prefix,
           error |-> raw[i].error]]

\* The snapshot of a finished build: the cap of max_entries.
TreeSnapshotOfCountsKept(entries, max_entries) ==
    LET kept == IF max_entries # <<>> /\ max_entries[1] < Len(entries)
                THEN SubSeq(entries, 1, max_entries[1]) ELSE entries
    IN [entries |-> kept, total_entries |-> Len(kept)]
TreeSnapshotOf(entries, max_entries) ==
    [entries |-> IF max_entries # <<>> /\ max_entries[1] < Len(entries)
                 THEN SubSeq(entries, 1, max_entries[1]) ELSE entries,
     total_entries |-> Len(entries)]

Popped(w) ==
    [w EXCEPT !.lists = SubSeq(@, 1, Len(@) - 1),
              !.stack_path = IF @ = <<>> THEN @ ELSE SubSeq(@, 1, Len(@) - 1)]
TopTaken(w) ==
    [w EXCEPT !.lists[Len(w.lists)] = Tail(@),
              !.visited = @ \cup {Head(w.lists[Len(w.lists)]).path}]
DepthExceededLate(w, config) ==
    config.max_depth # <<>> /\ Len(w.lists) > config.max_depth[1] + 1
DepthExceeded(w, config) ==
    config.max_depth # <<>> /\ Len(w.lists) > config.max_depth[1]

\* The first next(): the root is opened, passes the filter and is skipped.
Started(t, config) ==
    [pc |-> "iter",
     lists |-> <<ReadDir(t, 0, <<>>, 0)>>,
     stack_path |-> IF config.follow_symlinks THEN <<0>> ELSE <<>>,
     raw |-> <<>>, visited |-> {}, steps |-> 0]
\* One more turn of the loop `for entry_result in iter`.
Stepped(w) == [w EXCEPT !.steps = @ + 1]
\* An error in the list goes past the filter to the Err arm of the loop.
AfterError(w) ==
    LET e == Head(w.lists[Len(w.lists)])
    IN [TopTaken(w) EXCEPT
          !.raw = IF e.depth = 0 THEN @ ELSE Append(@, RawOfError(e))]
\* An entry of the list: handle_entry, the filter, the Ok arm of the loop.
AfterEntry(w, t, config) ==
    LET item == Head(w.lists[Len(w.lists)])
        dent == HandleEntry(t, config.follow_symlinks, item, w.stack_path)
        taken == TopTaken(w)
        opened == [taken EXCEPT
                     !.lists = Append(@, ReadDir(t, dent.node, dent.path,
                                                 dent.depth)),
                     !.stack_path = IF config.follow_symlinks
                                    THEN Append(@, dent.node) ELSE @]
        pushed == IF dent.is_dir THEN opened ELSE taken
    IN IF dent.err # <<>>
       THEN [taken EXCEPT !.raw = Append(@, RawOfError(dent))]
       ELSE IF ~FilterAllows(config, dent)
       THEN (IF dent.is_dir THEN Popped(pushed) ELSE pushed)
       ELSE [pushed EXCEPT !.raw = IF KeepsEntry(config, dent)
                                   THEN Append(@, RawOfEntry(dent)) ELSE @]
\* The iterator is exhausted: layout, then the cap.
Finished(w, config) ==
    TreeSnapshotOf(TreeEntries(w.raw), config.max_entries)

WalkInit == LoopInit /\ ~quiet /\ UnitIdle

walkFrame == <<loopVars, guard, tracker, touched, clock, scroll>>

\* A caller hands build_tree a root and a configuration.
WalkCall ==
    /\ call = NoCall /\ walk.pc = "idle"
    /\ \E t \in DirectoryTrees, c \in TreeConfigs :
         call' = [op |-> "build_tree", tree |-> t, config |-> c]
    /\ walk' = [pc |-> "start"]
    /\ UNCHANGED <<ret, walkFrame>>

WalkRoot ==
    /\ walk.pc = "start"
    /\ walk' = Started(call.tree, call.config)
    /\ UNCHANGED <<call, ret, walkFrame>>

\* Below max_depth the open list is dropped unread.
WalkDepthPop ==
    /\ walk.pc = "iter" /\ walk.lists # <<>>
    /\ DepthExceeded(walk, call.config)
    /\ walk.steps < MaxWalkSteps
    /\ walk' = Stepped(Popped(walk))
    /\ UNCHANGED <<call, ret, walkFrame>>

WalkListEnd ==
    /\ walk.pc = "iter" /\ walk.lists # <<>>
    /\ ~DepthExceeded(walk, call.config)
    /\ walk.lists[Len(walk.lists)] = <<>>
    /\ walk.steps < MaxWalkSteps
    /\ walk' = Stepped(Popped(walk))
    /\ UNCHANGED <<call, ret, walkFrame>>

WalkError ==
    /\ walk.pc = "iter" /\ walk.lists # <<>>
    /\ ~DepthExceeded(walk, call.config)
    /\ walk.lists[Len(walk.lists)] # <<>>
    /\ Head(walk.lists[Len(walk.lists)]).err # <<>>
    /\ walk.steps < MaxWalkSteps
    /\ walk' = Stepped(AfterError(walk))
    /\ UNCHANGED <<call, ret, walkFrame>>

\* The model holds at most MaxWalkDepth directory lists and runs at most
\* MaxWalkSteps turns of the loop.
WalkEntry ==
    /\ walk.pc = "iter" /\ walk.lists # <<>>
    /\ ~DepthExceeded(walk, call.config)
    /\ walk.lists[Len(walk.lists)] # <<>>
    /\ Head(walk.lists[Len(walk.lists)]).err = <<>>
    /\ Len(walk.lists) < MaxWalkDepth
    /\ walk.steps < MaxWalkSteps
    /\ walk' = Stepped(AfterEntry(walk, call.tree, call.config))
    /\ UNCHANGED <<call, ret, walkFrame>>

WalkFinish ==
    /\ walk.pc = "iter" /\ walk.lists = <<>>
    /\ walk' = [walk EXCEPT !.pc = "done"]
    /\ ret' = <<Finished(walk, call.config)>>
    /\ UNCHANGED <<call, walkFrame>>

\* build_tree as a function: the steps above, run to the end.
RECURSIVE RunWalk(_, _, _)
RunWalk(w, t, config) ==
    IF w.lists = <<>> THEN Finished(w, config)
    ELSE IF DepthExceeded(w, config) \/ w.lists[Len(w.lists)] = <<>>
    THEN RunWalk(Popped(w), t, config)
    ELSE IF Head(w.lists[Len(w.lists)]).err # <<>>
    THEN RunWalk(AfterError(w), t, config)
    ELSE RunWalk(AfterEntry(w, t, config), t, config)
build_tree(t, config) == RunWalk(Started(t, config), t, config)

WalkStep == WalkRoot \/ WalkDepthPop \/ WalkListEnd \/ WalkError
            \/ WalkEntry \/ WalkFinish
WalkNext == WalkCall \/ WalkStep
WalkSpec == WalkInit /\ [][WalkNext]_vars


\* ====================================================== the watcher adapter
\* The closure start_watcher hands to the debouncer.  A batch is Ok(events),
\* each event with its paths, or Err(errors); stat is what
\* fs::metadata(&root_path) answers.  ret holds what the closure sent on tx.
MaxBatch == 2           \* events, or errors, of one batch
WatchedPaths == {"a", "b"}
ErrorTexts == {"overflow", "denied"}
SeqsUpTo(S, n) == UNION {[1..k -> S] : k \in 0..n}
DebouncedEvents == {[paths |-> ps] : ps \in SeqsUpTo(WatchedPaths, 2)}
DebounceResults ==
    {[ok |-> TRUE, events |-> es, errors |-> <<>>] :
        es \in SeqsUpTo(DebouncedEvents, MaxBatch)}
    \cup {[ok |-> FALSE, events |-> <<>>, errors |-> er] :
            er \in SeqsUpTo(ErrorTexts, MaxBatch) \ {<<>>}}
StatResults == {"ok", "not_found", "denied"}

\* flat_map over the paths of the events.
RECURSIVE FlatPaths(_)
FlatPaths(events) ==
    IF events = <<>> THEN <<>>
    ELSE Head(events).paths \o FlatPaths(Tail(events))
\* collect::<HashSet<_>>().into_iter().collect(): the paths once each, in
\* the order the set yields them, which is any.
CollectedKeepingAll(events) == {FlatPaths(events)}
Collected(events) ==
    LET flat == FlatPaths(events)
        set == {flat[i] : i \in 1..Len(flat)}
    IN {v \in [1..Cardinality(set) -> set] :
            \A i, j \in 1..Cardinality(set) : v[i] = v[j] => i = j}

DebounceInit ==
    /\ LoopInit /\ ~quiet
    /\ \E r \in DebounceResults, st \in StatResults :
         call = [op |-> "debounce", result |-> r, stat |-> st]
    /\ ret = <<>>
    /\ GuardIdle /\ TrackerIdle /\ ScrollIdle /\ WalkIdle

Delivered(sent) ==
    /\ ret = <<>>
    /\ ret' = <<sent>>
    /\ UNCHANGED <<call, loopVars, objVars>>

DebounceChanged ==
    /\ call.op = "debounce" /\ call.result.ok /\ call.stat = "ok"
    /\ \E paths \in Collected(call.result.events) :
         Delivered(<<[type |-> "Changed", paths |-> paths, text |-> ""]>>)

DebounceRootDeleted ==
    /\ call.op = "debounce" /\ call.result.ok /\ call.stat = "not_found"
    /\ Delivered(<<[type |-> "RootDeleted", paths |-> <<>>, text |-> ""]>>)

DebounceStatError ==
    /\ call.op = "debounce" /\ call.result.ok
    /\ call.stat \notin {"ok", "not_found"}
    /\ Delivered(<<[type |-> "Error", paths |-> <<>>, text |-> call.stat]>>)

DebounceErrors ==
    /\ call.op = "debounce" /\ ~call.result.ok
    /\ Delivered([i \in 1..Len(call.result.errors) |->
                    [type |-> "Error", paths |-> <<>>,
                     text |-> call.result.errors[i]]])

DebounceNext ==
    \/ DebounceChanged
    \/ DebounceRootDeleted
    \/ DebounceStatError
    \/ DebounceErrors
DebounceSpec == DebounceInit /\ [][DebounceNext]_vars

\* ========================================================== the tree view
\* The lines render() makes of a snapshot and the scroll state it leaves:
\* tree_to_lines, the truncation line, update_total_and_clamp.  An entry
\* here has a path, which is its name.
RECURSIVE Decimal(_)
Decimal(n) ==
    IF n < 10 THEN <<48 + n>> ELSE Decimal(n \div 10) \o <<48 + (n % 10)>>
TRUNCATION_STYLE == [fg |-> <<"DarkGray">>, bold |-> FALSE]
truncation_line(shown, total) ==
    LET ShowingLit == <<46, 46, 46, 32, 115, 104, 111, 119, 105, 110, 103, 32>>
        OfLit == <<32, 111, 102, 32>>
        EntriesLit == <<32, 101, 110, 116, 114, 105, 101, 115, 32, 40, 116, 114,
                        117, 110, 99, 97, 116, 101, 100, 41>>
        msg == ShowingLit \o Decimal(shown) \o OfLit \o Decimal(total)
               \o EntriesLit
    IN <<SpanStyled(sanitize_terminal_text(msg), TRUNCATION_STYLE)>>
tree_to_lines(entries, use_color, changed_paths) ==
    [i \in 1..Len(entries) |->
        EntrySpans(entries[i], use_color, entries[i].path \in changed_paths)]
TreeLinesUncut(snapshot, use_color, active_highlights) ==
    tree_to_lines(snapshot.entries, use_color, active_highlights)
TreeLines(snapshot, use_color, active_highlights) ==
    LET entry_count_total == snapshot.total_entries
        entry_count_shown == Len(snapshot.entries)
        truncated == entry_count_total > entry_count_shown
    IN tree_to_lines(snapshot.entries, use_color, active_highlights)
       \o (IF truncated
           THEN <<truncation_line(entry_count_shown, entry_count_total)>>
           ELSE <<>>)

ViewEntries ==
    {[name |-> n, path |-> n, prefix |-> <<9492, 9472, 9472, 32>>,
      is_dir |-> d, is_symlink |-> FALSE, symlink_target |-> <<>>,
      error |-> <<>>] : n \in {<<97>>, <<98>>}, d \in BOOLEAN}
ViewSnapshots ==
    {[entries |-> es, total_entries |-> t] :
        es \in SeqsUpTo(ViewEntries, MaxShown), t \in 0..(MaxShown + 1)}
LinesInit ==
    /\ LoopInit /\ ~quiet
    /\ \E snap \in ViewSnapshots, c \in BOOLEAN, act \in SUBSET {<<97>>},
          off \in {0, 1, USIZE_MAX}, h \in 0..2 :
         call = [op |-> "render", snapshot |-> snap, use_color |-> c,
                 active |-> act, offset |-> off, tree_area_height |-> h]
    /\ ret = <<>>
    /\ GuardIdle /\ TrackerIdle /\ ScrollIdle /\ WalkIdle

CallRenderLines ==
    /\ call.op = "render"
    /\ ret = <<>>
    /\ LET tree_lines == TreeLines(call.snapshot, call.use_color, call.active)
       IN ret' = <<[lines |-> tree_lines,
                    total_lines |-> Len(tree_lines),
                    offset |-> UpdateTotalAndClamp(call.offset,
                                                   Len(tree_lines),
                                                   call.tree_area_height)]>>
    /\ UNCHANGED <<call, loopVars, objVars>>

LinesNext == CallRenderLines
LinesSpec == LinesInit /\ [][LinesNext]_vars

\* ============================================================ render_frame
\* What render_frame queues on its writer, one token for each command or
\* text: "home", "clear", "text" with the number of the line, "crlf".  A
\* usize subtraction below zero is the token "underflow".  lines is
\* <<1, ..., n>>.
FrameToken(kind) == [kind |-> kind, line |-> 0]
FrameText(line) == [kind |-> "text", line |-> line]
MaxFrameLines == 3      \* lines handed to render_frame
MaxFrameRows == 4       \* max_rows, and prev_line_count
Smaller(a, b) == IF a < b THEN a ELSE b
ContentBreakAlways(i, visible, max_rows) == TRUE
ContentBreak(i, visible, max_rows) == i < visible - 1 \/ visible < max_rows
\* for (i, line) in lines[..visible].iter().enumerate()
RECURSIVE ContentTokens(_, _, _, _)
ContentTokens(lines, i, visible, max_rows) ==
    IF i >= visible THEN <<>>
    ELSE <<FrameToken("clear")>>
         \o (IF visible < 1 THEN <<FrameToken("underflow")>> ELSE <<>>)
         \o <<FrameText(lines[i + 1])>>
         \o (IF ContentBreak(i, visible, max_rows)
             THEN <<FrameToken("crlf")>> ELSE <<>>)
         \o ContentTokens(lines, i + 1, visible, max_rows)
\* for i in visible..clear_up_to
RECURSIVE LeftoverTokens(_, _, _)
LeftoverTokens(i, clear_up_to, max_rows) ==
    IF i >= clear_up_to THEN <<>>
    ELSE <<FrameToken("clear")>>
         \o (IF max_rows < 1 THEN <<FrameToken("underflow")>> ELSE <<>>)
         \o (IF i < max_rows - 1 THEN <<FrameToken("crlf")>> ELSE <<>>)
         \o LeftoverTokens(i + 1, clear_up_to, max_rows)
render_frame(lines, prev_line_count, max_rows) ==
    LET visible == Smaller(Len(lines), max_rows)
        clear_up_to == Smaller(prev_line_count, max_rows)
    IN [written |-> <<FrameToken("home")>>
                    \o ContentTokens(lines, 0, visible, max_rows)
                    \o LeftoverTokens(visible, clear_up_to, max_rows),
        value |-> visible]

FrameInit ==
    /\ LoopInit /\ ~quiet
    /\ \E n \in 0..MaxFrameLines, prev \in 0..MaxFrameRows,
          rows \in 0..MaxFrameRows :
         call = [op |-> "render_frame", lines |-> [k \in 1..n |-> k],
                 prev_line_count |-> prev, max_rows |-> rows]
    /\ ret = <<>>
    /\ GuardIdle /\ TrackerIdle /\ ScrollIdle /\ WalkIdle

CallRenderFrame ==
    /\ call.op = "render_frame"
    /\ ret = <<>>
    /\ ret' = <<render_frame(call.lines, call.prev_line_count,
                             call.max_rows)>>
    /\ UNCHANGED <<call, loopVars, objVars>>

FrameNext == CallRenderFrame
FrameSpec == FrameInit /\ [][FrameNext]_vars

\* ================================================================ claims
RenderingKeys == {"r", "Up", "Down", "PageUp", "PageDown", "Home", "End",
                  "+", "-", "Resize"}
ScrollKeys == {"Up", "Down", "PageUp", "PageDown", "Home", "End"}
MainTookKey == Len(keyQueue') < Len(keyQueue)
MainTookFs == Len(fsQueue') < Len(fsQueue)
IsPrefix(s, t) == Len(s) <= Len(t) /\ SubSeq(t, 1, Len(s)) = s
LeftLoop == mainPc \in {"exiting", "joining", "done", "panicked"}

\* C1: the tree builder has run once for the initial render and once for
\* each Changed event handled, and no step that handles a key or a resize
\* (scroll, reset, duration, resize) runs it.
C1_BuilderRunsOncePerChange ==
    /\ [](buildCount = (IF mainPc = "init" THEN 0 ELSE 1) + changedHandled)
    /\ [][MainTookKey => buildCount' = buildCount]_vars
C1_Witness ==
    /\ changedHandled = 2
    /\ buildCount = 3
    /\ renderCount = 4
    /\ lastEvent \in ScrollKeys

\* C2: a step that handles Changed(paths) stamps last_change, leaves every
\* path of the batch tracked at the instant of the event (as long as the
\* render's clock reading is within the duration of it), and draws a
\* snapshot that this very step built: the cache holds exactly the result
\* of the new build, and the frame on screen is always the latest build.
C2_ChangedRebuildsAndTouches ==
    /\ [][changedHandled' = changedHandled + 1 =>
            /\ buildCount' = buildCount + 1
            /\ tree_cache' = <<Snapshot(fsTree.shown, fsTree.cut, buildCount')>>
            /\ drawn'.kind = "tree"
            /\ drawn'.seq = buildCount'
            /\ drawn'.seq > drawn.seq
            /\ last_change' = <<ChronoLiteNow(now)>>
            /\ \A p \in Head(fsQueue).paths :
                  now' - now < highlights.duration =>
                      /\ p \in DOMAIN highlights'.entries
                      /\ highlights'.entries[p] = now
                      /\ p \in drawn'.active]_vars
    /\ [](drawn.kind = "tree" =>
            /\ tree_cache # <<>>
            /\ drawn.seq = tree_cache[1].seq
            /\ drawn.seq = buildCount)
C2_Witness ==
    /\ lastEvent = "Changed"
    /\ changedHandled = 2
    /\ drawn.seq = 3
    /\ drawn.active = {"a", "b"}
    /\ last_change # <<>>

\* C3: a step that handles a Changed batch, the reset key, a scroll key, a
\* duration key or a resize renders exactly once; no step renders twice,
\* and after the initial render a render happens only inside such a step.
C3_OneRenderPerEvent ==
    [][/\ (handled' = handled + 1 /\ lastEvent' \in RenderingKeys \cup {"Changed"})
            => renderCount' = renderCount + 1
       /\ renderCount' \in {renderCount, renderCount + 1}
       /\ (renderCount' # renderCount /\ mainPc # "init")
            => (handled' = handled + 1 /\ mainPc = "running"
                /\ lastEvent' \in RenderingKeys \cup {"Changed"})]_vars
C3_Witness ==
    /\ handled = 3
    /\ renderCount = 4
    /\ changedHandled = 2
    /\ lastEvent = "Resize"

\* C4 (as claimed): once the loop has seen either channel disconnected it
\* is no longer Running.
C4_DisconnectLeavesRunning ==
    lastEvent \in {"fs_closed", "key_closed"} => mainPc # "running"

\* C5 (as claimed): once the interrupt flag is set while the loop is
\* Running, the loop eventually leaves Running.
C5_InterruptEventuallyObserved ==
    (interrupted /\ mainPc = "running") ~> (mainPc # "running")

\* C6: the loop leaves Running only into Exiting and only on a quit key,
\* the interrupt flag seen on a tick, RootDeleted or a channel disconnect;
\* afterwards it never runs again, takes nothing from either channel and
\* neither builds nor draws; what is queued stays queued.
C6_ExitIsOneWayAndTriggered ==
    /\ [][(mainPc = "running" /\ mainPc' # "running") =>
            /\ mainPc' = "exiting"
            /\ lastEvent' \in {"q", "ctrl_c", "interrupt", "RootDeleted",
                               "fs_closed", "key_closed"}
            /\ lastEvent' \in {"q", "ctrl_c"} =>
                  (keyQueue # <<>> /\ Head(keyQueue) = lastEvent')
            /\ lastEvent' = "interrupt" => interrupted
            /\ lastEvent' = "RootDeleted" =>
                  (fsQueue # <<>> /\ Head(fsQueue).type = "RootDeleted")
            /\ lastEvent' = "fs_closed" => (fsQueue = <<>> /\ ~fsAlive)]_vars
    /\ [][LeftLoop =>
            /\ LeftLoop'
            /\ mainPc' # "exiting" \/ mainPc = "exiting"
            /\ IsPrefix(fsQueue, fsQueue')
            /\ IsPrefix(keyQueue, keyQueue')
            /\ UNCHANGED <<handled, changedHandled, lastEvent, buildCount,
                           renderCount, messageCount, drawn, appVars>>]_vars
C6_Witness ==
    /\ mainPc = "done"
    /\ lastEvent = "q"
    /\ Len(fsQueue) = MaxFsEvents

\* C7: the step that handles RootDeleted draws the directory-deleted
\* message and moves to Exiting without building or rendering the tree;
\* the message stays the last frame, and run fails afterwards only if the
\* input thread panicked.
C7_RootDeletedMessageThenExit ==
    /\ [][(MainTookFs /\ Head(fsQueue).type = "RootDeleted") =>
            /\ mainPc' = "exiting"
            /\ drawn'.kind = "message"
            /\ messageCount' = messageCount + 1
            /\ UNCHANGED <<buildCount, renderCount, appVars>>]_vars
    /\ [](lastEvent = "RootDeleted" =>
            /\ LeftLoop
            /\ drawn.kind = "message"
            /\ mainPc = "panicked" => inputPc = "panicked")
C7_Witness ==
    /\ lastEvent = "RootDeleted"
    /\ mainPc = "done"
    /\ drawn.kind = "message"
    /\ renderCount = 2

\* C8: the join is reached only with the shutdown flag set; once the flag
\* is set the input thread's next check of it ends the thread, wherever
\* the thread was (polling, reading, sending); so every exit from the loop
\* leads to run returning or propagating the thread's panic.
C8_ShutdownThenJoinCompletes ==
    /\ [](mainPc \in {"joining", "done", "panicked"} => shutdown)
    /\ [](inputPc = "done" => shutdown)
    /\ [][(shutdown /\ inputPc = "check" /\ inputPc' # inputPc)
            => inputPc' = "done"]_vars
    /\ (mainPc = "exiting") ~> (mainPc \in {"done", "panicked"})
C8_Witness ==
    /\ mainPc = "joining"
    /\ inputPc \in {"read", "send"}

\* C9: run returns normally only if the input thread ended normally; a
\* panicked input thread makes run panic, and run panics for no other
\* reason.
C9_JoinFailurePropagates ==
    /\ mainPc = "done" => inputPc = "done"
    /\ mainPc = "panicked" => inputPc = "panicked"
C9_Witness ==
    /\ mainPc = "panicked"
    /\ inputPc = "panicked"

\* C10: the step that handles a watcher Error keeps the loop Running,
\* leaves the cache, the tracker, the scroll state, last_change and the
\* screen as they were, and writes one line to stderr unless quiet.
C10_ErrorKeepsRunning ==
    [][(MainTookFs /\ Head(fsQueue).type = "Error") =>
            /\ mainPc' = "running"
            /\ UNCHANGED <<appVars, drawn, buildCount, renderCount>>
            /\ stderrLog' = stderrLog + (IF quiet THEN 0 ELSE 1)]_vars
C10_Witness ==
    /\ lastEvent = "Error"
    /\ mainPc = "running"
    /\ ~quiet
    /\ stderrLog = 1
    /\ changedHandled = 1
    /\ DOMAIN highlights.entries = {"a", "b"}

HasControl(text) == \E i \in 1..Len(text) : IsControl(text[i])
DrawnLines == IF ret = <<>> THEN <<>> ELSE ret[1]

\* C11 (as claimed): no line handed to the terminal contains a raw control
\* character, whichever text the entry, the status bar or the watched path
\* carries, with color on or off.
C11_NoRawControlChar ==
    \A i \in 1..Len(DrawnLines) : ~HasControl(DrawnLines[i])

\* What does hold: the lines of entry_to_line and status_bar_line carry no
\* control character.
SanitizedLinesClean ==
    (ret # <<>> /\ call.op \in {"entry_to_line", "status_bar_line"}) =>
        \A i \in 1..Len(DrawnLines) : ~HasControl(DrawnLines[i])

NormalExitReleasesOnce ==
    guard.pc = "exited" =>
        /\ ~guard.raw
        /\ ~guard.hook_ran => (guard.acquired = 1 /\ guard.released = 1)

Queried == call.op = "active_set" /\ ret # <<>>
InsertedOnce(p) ==
    p \in DOMAIN touched /\ touched[p].n = 1 /\ touched[p].fixed
Reinserted(p) ==
    p \in DOMAIN touched /\ touched[p].n = 2 /\ touched[p].fixed

\* C13: with the duration unchanged since then, a path inserted once at t0
\* and not cleared is in the result of active_set(t0 + D) exactly when
\* D < duration, whatever the other tracked paths are; at D = duration it
\* is expired, and an expired path is no longer tracked.
C13_ActiveIffYoungerThanTtl ==
    Queried =>
        \A p \in TrackerPaths :
            InsertedOnce(p) =>
                /\ p \in ret[1] <=> clock - touched[p].at < tracker.duration
                /\ p \in DOMAIN tracker.entries <=> p \in ret[1]
\* One path at exactly the duration (expired) while the other, inserted
\* later, is still active.
C13_Witness ==
    /\ Queried
    /\ tracker.duration = InitialDurationSecs
    /\ InsertedOnce("a") /\ InsertedOnce("b")
    /\ clock - touched["a"].at = tracker.duration
    /\ ret[1] = {"b"}


\* C14: an insert of a tracked path replaces its instant and never adds a
\* second entry: with the duration unchanged since the latest insert at t1,
\* a path inserted several times is in the result of active_set(t) exactly
\* when t - t1 < duration, so it outlives the expiry of its first insert
\* and is gone from t1 + duration on; the one instant kept for it is t1.
C14_LatestTouchWins ==
    /\ [](Queried =>
            \A p \in TrackerPaths :
                Reinserted(p) =>
                    (p \in ret[1] <=> clock - touched[p].at < tracker.duration))
    /\ [](\A p \in DOMAIN tracker.entries :
            p \in DOMAIN touched /\ tracker.entries[p] = touched[p].at)
    /\ [][call'.op = "insert" =>
            /\ DOMAIN tracker'.entries
                   = DOMAIN tracker.entries \cup {call'.path}
            /\ tracker'.entries[call'.path] = clock'
            /\ \A q \in DOMAIN tracker.entries \ {call'.path} :
                   tracker'.entries[q] = tracker.entries[q]]_vars
\* A path touched again before its first insert expired is still active
\* at an instant where the first insert alone would have expired.
C14_Witness ==
    /\ Queried
    /\ Reinserted("a")
    /\ touched["a"].first < touched["a"].at
    /\ touched["a"].at < touched["a"].first + tracker.duration
    /\ clock >= touched["a"].first + tracker.duration
    /\ "a" \in ret[1]

HandledKey(k) == handled' = handled + 1 /\ lastEvent' = k

C17_ClearDropsEverything ==
    /\ [][HandledKey("r") =>
            /\ DOMAIN highlights'.entries = {}
            /\ drawn'.kind = "tree" /\ drawn'.active = {}
            /\ renderCount' = renderCount + 1
            /\ buildCount' = buildCount
            /\ tree_cache' = tree_cache]_vars
    /\ [][(DOMAIN highlights.entries = {}
           /\ changedHandled' = changedHandled) =>
            /\ DOMAIN highlights'.entries = {}
            /\ renderCount' # renderCount => drawn'.active = {}]_vars
\* Changed, then reset while both paths are tracked and unexpired, then a
\* later frame: nothing is tracked or highlighted.
C17_Witness ==
    /\ changedHandled = 1
    /\ handled = 3
    /\ lastEvent = "+"
    /\ now > 0
    /\ highlight_duration_secs > MaxTime
    /\ DOMAIN highlights.entries = {}
    /\ drawn.active = {}
    /\ buildCount = 2


MaxScrollOf(total, view) == IF total > view THEN total - view ELSE 0

\* C18: once a frame has been rendered, the offset is within
\* 0 .. max(0, total_lines - viewport_height) for the line count and the
\* viewport height of the latest render, and the frame is drawn at that
\* offset, whatever scroll keys, resizes and tree changes came before.
C18_OffsetWithinRange ==
    renderCount > 0 =>
        /\ drawn.kind = "tree"
        /\ total_lines = drawn.lines
        /\ offset >= 0
        /\ offset <= MaxScrollOf(total_lines, drawn.view)
        /\ drawn.offset = offset
\* End pressed, then the tree shrinks to two lines and is rebuilt with no
\* row left for it: the offset is clamped to the two lines.
C18_Witness ==
    /\ lastEvent = "Changed"
    /\ handled = 2
    /\ keyQueue = <<>>
    /\ drawn.view = 0
    /\ total_lines = 2
    /\ offset = 2


Called(op) == call'.op = op /\ call'.seq = call.seq + 1

\* C19: every scroll operation leaves the offset within 0 .. usize::MAX;
\* scroll_up(n) yields max(0, offset - n); scroll_down(n) yields
\* offset + n, or usize::MAX where that would pass it (so right after
\* scroll_end it stays there); scroll_home yields 0; scroll_end yields
\* usize::MAX, which the next clamp turns into total_lines - viewport when
\* total_lines > viewport (and into 0 otherwise).
C19_ScrollSaturates ==
    /\ [](scroll.offset \in 0..USIZE_MAX)
    /\ [][/\ Called("scroll_up") =>
               scroll'.offset = IF call'.arg >= scroll.offset THEN 0
                                ELSE scroll.offset - call'.arg
          /\ Called("scroll_down") =>
               scroll'.offset = IF scroll.offset >= USIZE_MAX - call'.arg
                                THEN USIZE_MAX
                                ELSE scroll.offset + call'.arg
          /\ Called("scroll_home") => scroll'.offset = 0
          /\ Called("scroll_end") => scroll'.offset = USIZE_MAX
          /\ (Called("update_total_and_clamp") /\ call.op = "scroll_end") =>
               scroll'.offset =
                   IF scroll'.total_lines > call'.arg
                   THEN scroll'.total_lines - call'.arg ELSE 0]_vars
\* 100 lines in a viewport of 20: scroll_end, the clamp (offset 80), then
\* scroll_up(5).
C19_Witness ==
    /\ call = [op |-> "scroll_up", arg |-> 5, seq |-> 3]
    /\ scroll = [offset |-> 75, total_lines |-> 100]


\* The parent of entry i: the nearest entry before it that is one level
\* up (0 stands for the root).
ParentOf(raw, i) ==
    LET ups == {j \in 1..(i - 1) : raw[j] = raw[i] - 1}
    IN IF ups = {} THEN 0 ELSE CHOOSE j \in ups : \A k \in ups : k <= j
SiblingsOf(raw, i) ==
    {k \in 1..Len(raw) : raw[k] = raw[i] /\ ParentOf(raw, k) = ParentOf(raw, i)}

\* C20: in the output of the layout, an entry has is_last exactly when it
\* is the final entry of its sibling group in display order; so every
\* sibling group has exactly one entry with is_last.
C20_OneLastPerSiblingGroup ==
    (call.op = "compute_tree_structure" /\ ret # <<>>) =>
        LET raw == call.raw
            out == ret[1]
        IN /\ Len(out) = Len(raw)
           /\ \A i \in 1..Len(raw) :
                /\ out[i].depth = raw[i]
                /\ out[i].is_last <=> \A k \in SiblingsOf(raw, i) : k <= i
                /\ Cardinality({k \in SiblingsOf(raw, i) : out[k].is_last}) = 1
\* Two directories with one child each and a file after them: the first
\* child is the last of its group although an entry of its depth follows.
C20_Witness ==
    /\ ret # <<>>
    /\ call.op = "compute_tree_structure"
    /\ call.raw = <<1, 2, 1, 2, 1>>
    /\ ret[1][2].is_last
    /\ ~ret[1][3].is_last
    /\ ret[1][5].is_last


\* The ancestor of entry i at depth k <= raw[i]: i itself at its own depth,
\* else the ancestor of its parent.
RECURSIVE AncestorAt(_, _, _)
AncestorAt(raw, i, k) ==
    IF raw[i] = k THEN i ELSE AncestorAt(raw, ParentOf(raw, i), k)
BlankSegment == <<32, 32, 32, 32>>
BarSegment == <<9474, 32, 32, 32>>
TeeConnector == <<9500, 9472, 9472, 32>>
LastConnector == <<9492, 9472, 9472, 32>>
SegmentOf(prefix, k) == SubSeq(prefix, 4 * k - 3, 4 * k)

\* C21: the prefix of an entry at depth d >= 1 is d - 1 continuation
\* segments and one connector; segment k is blank when the ancestor at
\* depth k is a last sibling and a vertical bar otherwise; the connector is
\* the terminal branch exactly when the entry is a last sibling; and
\* computing the prefixes again over the finished entries changes nothing.
C21_PrefixFollowsAncestors ==
    (call.op = "compute_tree_structure" /\ ret # <<>>) =>
        LET raw == call.raw
            out == ret[1]
        IN /\ \A i \in 1..Len(out) :
                LET d == out[i].depth
                    prefix == out[i].prefix
                IN /\ d >= 1
                   /\ Len(prefix) = 4 * d
                   /\ \A k \in 1..(d - 1) :
                        SegmentOf(prefix, k) =
                            IF out[AncestorAt(raw, i, k)].is_last
                            THEN BlankSegment ELSE BarSegment
                   /\ SegmentOf(prefix, d) =
                        IF out[i].is_last THEN LastConnector ELSE TeeConnector
           /\ compute_prefixes(out, 1, <<>>) = out
\* A last directory with two children, under a directory that is not last:
\* the grandchildren carry a bar, then a blank.
C21_Witness ==
    /\ ret # <<>>
    /\ call.op = "compute_tree_structure"
    /\ call.raw = <<1, 2, 3, 3, 1>>
    /\ ret[1][3].prefix = BarSegment \o BlankSegment \o TeeConnector
    /\ ret[1][4].prefix = BarSegment \o BlankSegment \o LastConnector


\* The entries of the snapshot a finished build_tree returned.
Built == call.op = "build_tree" /\ ret # <<>>
ParentPath(path) == SubSeq(path, 1, Len(path) - 1)
\* Entries i before j of one directory are in the order of the sort rule.
InSortOrder(a, b) ==
    /\ ~(b.is_dir /\ ~a.is_dir)
    /\ a.is_dir = b.is_dir =>
         /\ ~(StartsWithDot(a.name) /\ ~StartsWithDot(b.name))
         /\ StartsWithDot(a.name) = StartsWithDot(b.name) =>
              StrCmp(ToLowercase(a.name), ToLowercase(b.name)) # "Greater"
\* The synthetic entry of a read failure is no sibling that was sorted.
SiblingsSorted(out) ==
    \A i, j \in 1..Len(out) :
        (/\ i < j
         /\ ParentPath(out[i].path) = ParentPath(out[j].path)
         /\ out[i].error = <<>> /\ out[j].error = <<>>) =>
            InSortOrder(out[i], out[j])

\* C22: of two siblings in the output a directory comes before a
\* non-directory; within one kind a name without a leading '.' comes before
\* a name with one; otherwise the smaller lower-cased name comes first.
C22_SiblingsSorted == Built => SiblingsSorted(ret[1].entries)
\* Without follow_symlinks the order holds.
SortedWithoutFollow ==
    (Built /\ ~call.config.follow_symlinks) => SiblingsSorted(ret[1].entries)


\* The entries the walk discovered, in final order.
Discovered == TreeEntries(walk.raw)

Excluded(config, rel_path) ==
    \/ ~config.show_hidden /\ StartsWithDot(rel_path[Len(rel_path)])
    \/ IsMatch(rel_path)
\* rel_path or one of its ancestors below the root is excluded.
ExcludedOnTheWay(config, rel_path) ==
    \E k \in 1..Len(rel_path) : Excluded(config, SubSeq(rel_path, 1, k))
NothingExcludedListed(config, out, visited) ==
    /\ \A i \in 1..Len(out) :
         /\ out[i].depth >= 1 /\ out[i].path # <<>>
         /\ ~ExcludedOnTheWay(config, out[i].path)
    /\ \A p \in visited :
         ~ExcludedOnTheWay(config, ParentPath(p))

\* C24: no entry of the output is hidden (with show_hidden off) or matches
\* an ignore glob, and none lies below such an entry; nothing below an
\* excluded directory is visited; the root is not listed.
C24_ExcludedNeverListed ==
    Built => NothingExcludedListed(call.config, ret[1].entries, walk.visited)
\* Without follow_symlinks the filters hold.
FiltersHoldWithoutFollow ==
    (Built /\ ~call.config.follow_symlinks) =>
        NothingExcludedListed(call.config, ret[1].entries, walk.visited)


\* The path of a slot and the paths listed by the walk.
RECURSIVE SlotPath(_)
SlotPath(s) ==
    IF s = 0 THEN <<>> ELSE Append(SlotPath(SlotParent[s]), SlotName[s])
ListedPaths(out) == {out[i].path : i \in 1..Len(out)}

\* C25: with max_depth = Some(n) no entry of the output is deeper than n;
\* a directory at depth n is listed, and nothing below it is visited.
C25_DepthLimited ==
    (Built /\ call.config.max_depth # <<>>) =>
        LET n == call.config.max_depth[1]
        IN /\ \A i \in 1..Len(Discovered) : Discovered[i].depth <= n
           /\ \A i \in 1..Len(ret[1].entries) : ret[1].entries[i].depth <= n
           /\ \A p \in walk.visited : Len(p) <= n
           /\ \A s \in 1..10 :
                (/\ IsDirKind(call.tree.slot[s])
                 /\ Len(SlotPath(s)) = n
                 /\ ~ExcludedOnTheWay(call.config, SlotPath(s))) =>
                    SlotPath(s) \in ListedPaths(Discovered)
\* B is a directory with something in it, and the limit is 1.
C25_Witness ==
    /\ Built
    /\ call.config.max_depth = <<1>>
    /\ call.tree.slot[1] = "dir" /\ call.tree.slot[5] = "dir"
    /\ call.tree.slot[7] = "file"
    /\ SlotPath(1) \in ListedPaths(ret[1].entries)
    /\ SlotPath(5) \notin ListedPaths(Discovered)


IsDirEntry(e) == e.is_dir
\* What identifies a listed entry, whatever the layout made of it.
Identity(out) ==
    [i \in 1..Len(out) |->
        [path |-> out[i].path, depth |-> out[i].depth,
         is_symlink |-> out[i].is_symlink, error |-> out[i].error]]

\* C26: with dirs_only every entry of the output is a directory, and the
\* directories listed are the ones the same build lists without dirs_only,
\* in the same order.
C26_DirsOnlyKeepsDirectories ==
    (Built /\ call.config.dirs_only) =>
        LET all == build_tree(call.tree,
                              [call.config EXCEPT !.dirs_only = FALSE,
                                                  !.max_entries = <<>>])
        IN /\ \A i \in 1..Len(ret[1].entries) : ret[1].entries[i].is_dir
           /\ \A i \in 1..Len(Discovered) : Discovered[i].is_dir
           /\ Identity(Discovered)
                = Identity(SelectSeq(all.entries, IsDirEntry))
\* Files beside and below directories, and a followed symlink to a
\* directory with a file in it.
C26_Witness ==
    /\ Built
    /\ call.config.dirs_only /\ call.config.follow_symlinks
    /\ call.config.max_depth = <<>> /\ call.config.max_entries = <<>>
    /\ call.tree.slot[1] = "dir" /\ call.tree.slot[2] = "dir"
    /\ call.tree.slot[5] = "dir" /\ call.tree.slot[7] = "file"
    /\ call.tree.slot[6] = "link_a"
    /\ ListedPaths(ret[1].entries) = {SlotPath(1), SlotPath(2), SlotPath(5),
                                      SlotPath(6)}


\* C27: with follow_symlinks a build that has started always has a next
\* step to take and has taken fewer than MaxWalkSteps turns of its loop, so
\* it returns, whatever the directory graph: also where a symlink points at
\* the root, an ancestor of every entry.  Neither bound of the model is what
\* stops it: the open lists stay below MaxWalkDepth.
WalkCanStep ==
    \/ walk.pc = "start"
    \/ /\ walk.pc = "iter"
       /\ \/ walk.lists = <<>>
          \/ /\ walk.steps < MaxWalkSteps
             /\ \/ DepthExceeded(walk, call.config)
                \/ walk.lists[Len(walk.lists)] = <<>>
                \/ Head(walk.lists[Len(walk.lists)]).err # <<>>
                \/ Len(walk.lists) < MaxWalkDepth
C27_FollowTerminates ==
    /\ (call # NoCall /\ call.config.follow_symlinks /\ walk.pc # "done")
         => WalkCanStep
    /\ (call # NoCall /\ call.config.follow_symlinks /\ walk.pc = "done")
         => /\ ret # <<>>
            /\ ret[1].total_entries = Len(Discovered)
            /\ Len(Discovered) <= walk.steps
\* The walk met a symlink to the root two levels down and returned, the
\* link listed as a loop.
C27_Witness ==
    /\ Built /\ walk.pc = "done"
    /\ call.config.follow_symlinks
    /\ call.tree.slot[6] = "link_root"
    /\ \E i \in 1..Len(Discovered) :
         /\ Discovered[i].path = SlotPath(6)
         /\ Discovered[i].error = <<"File system loop found">>


\* The walk takes slot s from the list of its directory: the slot is there,
\* nothing above it is excluded, and it is not below the depth limit.
Reached(t, config, s) ==
    /\ t.slot[s] # "absent"
    /\ ~ExcludedOnTheWay(config, ParentPath(SlotPath(s)))
    /\ config.max_depth # <<>> => Len(SlotPath(s)) <= config.max_depth[1]
\* The read of slot s fails in front of the loop of build_tree: a directory
\* the walk is to list cannot be read, or a symlink the walk is to follow
\* leads nowhere or to a directory that is open.
FailsAt(t, config, s) ==
    /\ Reached(t, config, s)
    /\ \/ /\ t.slot[s] = "baddir"
          /\ ~Excluded(config, SlotPath(s))
          /\ config.max_depth # <<>> => Len(SlotPath(s)) < config.max_depth[1]
       \/ /\ config.follow_symlinks
          /\ t.slot[s] \in {"link_broken", "link_root"}
\* Slot s is to be listed as an entry without an error.
ListedPlainly(t, config, s) ==
    /\ Reached(t, config, s)
    /\ ~Excluded(config, SlotPath(s))
    /\ ~(config.follow_symlinks /\ IsLink(t.slot[s]))
    /\ config.dirs_only => IsDirKind(t.slot[s])
ErrorEntriesAt(out, path) ==
    {i \in 1..Len(out) : out[i].path = path /\ out[i].error # <<>>}

RootFailureWitness ==
    /\ Built /\ call.tree.root = "baddir" /\ ret[1].entries = <<>>


Styled == call.op = "tree_to_lines" /\ ret # <<>>
\* The span of the name: the first span after the prefix.
NameSpanOf(line, e) == line[IF e.prefix # <<>> THEN 2 ELSE 1]
\* The style the precedence gives a name when colour is on.
StyleByPrecedence(e, in_changed) ==
    CASE in_changed /\ e.is_dir -> CHANGED_DIR_STYLE
      [] in_changed /\ ~e.is_dir -> CHANGED_STYLE
      [] ~in_changed /\ e.error # <<>> -> ERROR_STYLE
      [] ~in_changed /\ e.error = <<>> /\ e.is_symlink -> SYMLINK_STYLE
      [] ~in_changed /\ e.error = <<>> /\ ~e.is_symlink /\ e.is_dir
            -> DIR_STYLE
      [] OTHER -> DefaultStyle
RECURSIVE Spelled(_)
Spelled(line) ==
    IF line = <<>> THEN <<>> ELSE Head(line).content \o Spelled(Tail(line))

\* C29: with colour the name of an entry has the style of the first rule
\* that applies: changed (one style for a directory, another for the
\* rest), read error, symlink, directory, plain; the six styles differ
\* from one another; without colour every span has the default style,
\* changed or not.
C29_StyleByPrecedence ==
    Styled =>
        LET line == ret[1][1]
            e == call.entry
        IN /\ call.use_color =>
                NameSpanOf(line, e).style
                    = StyleByPrecedence(e, call.changed)
           /\ ~call.use_color =>
                \A k \in 1..Len(line) : line[k].style = DefaultStyle
           /\ Cardinality({CHANGED_DIR_STYLE, CHANGED_STYLE, ERROR_STYLE,
                           SYMLINK_STYLE, DIR_STYLE, DefaultStyle}) = 6
\* A changed directory that is a symlink with a read error: the highlight
\* of a changed directory wins.
C29_Witness ==
    /\ Styled /\ call.use_color /\ call.changed
    /\ call.entry.is_dir /\ call.entry.is_symlink /\ call.entry.error # <<>>
    /\ NameSpanOf(ret[1][1], call.entry).style = CHANGED_DIR_STYLE
\* The same entry in the highlight set with colour off: raw spans only.
NoColorWitness ==
    /\ Styled /\ ~call.use_color /\ call.changed
    /\ call.entry.is_dir /\ call.entry.prefix # <<>>
    /\ \A k \in 1..Len(ret[1][1]) : ret[1][1][k].style = DefaultStyle
\* The spans spell the text of the line.
SpansSpellTheLine ==
    Styled =>
        Spelled(ret[1][1])
            = EntryToLine(call.entry, call.use_color, call.changed)


Truncated == call.op = "truncate_middle" /\ ret # <<>>
\* The columns a text takes on the terminal.
CharWidth(c) == IF c = 23383 THEN 2 ELSE 1
RECURSIVE DisplayWidth(_)
DisplayWidth(s) ==
    IF s = <<>> THEN 0 ELSE CharWidth(Head(s)) + DisplayWidth(Tail(s))
\* text is chars from the front of input, an ellipsis and chars from the
\* back of input; below three columns the ellipsis is what fits of it.
MiddleCut(text, input, max_cols) ==
    \E p, q \in 0..Len(input) :
        /\ p + q <= Len(input)
        /\ text = SubSeq(input, 1, p)
                  \o Dots(IF max_cols < 3 THEN max_cols ELSE 3)
                  \o SubSeq(input, Len(input) - q + 1, Len(input))
TruncatedByCharacters(input, max_cols, out) ==
    /\ ~out.panicked
    /\ DisplayWidth(out.text) <= max_cols
    /\ IF DisplayWidth(input) <= max_cols
       THEN out.text = input
       ELSE MiddleCut(out.text, input, max_cols)

\* C30: truncate_middle returns, without a panic, a text no wider than
\* max_cols columns: the input when the input fits, otherwise chars from
\* the front of the input, an ellipsis and chars from its back.
C30_TruncatesByCharacters ==
    Truncated => TruncatedByCharacters(call.input, call.max_cols, ret[1])
\* For a title of one-byte chars the bytes are the columns, and the
\* property holds.
AsciiTruncatedByCharacters ==
    (Truncated /\ \A k \in 1..Len(call.input) : call.input[k] < 128) =>
        TruncatedByCharacters(call.input, call.max_cols, ret[1])
\* A title with a two-byte char that is cut inside that char.
SliceInsideCharWitness ==
    /\ Truncated /\ ret[1].panicked
    /\ DisplayWidth(call.input) > call.max_cols
\* A title that fits its columns but not its bytes, and is cut.
FittingTitleCutWitness ==
    /\ Truncated /\ ~ret[1].panicked
    /\ DisplayWidth(call.input) <= call.max_cols
    /\ ret[1].text # call.input



Debounced == call.op = "debounce" /\ ret # <<>>
PathsOfBatch(events) ==
    UNION {{events[i].paths[k] : k \in 1..Len(events[i].paths)} :
             i \in 1..Len(events)}
NoDuplicates(v) == \A i, j \in 1..Len(v) : v[i] = v[j] => i = j

\* C31: a batch of events makes the adapter send one event: Changed with
\* every path of the batch once when the root is there, RootDeleted when
\* the stat says not found, Error with the failure's text for any other
\* stat failure; a batch of errors makes it send one Error for each, in
\* their order.
C31_OneEventPerBatch ==
    Debounced =>
        LET sent == ret[1]
            r == call.result
        IN IF r.ok
           THEN /\ Len(sent) = 1
                /\ call.stat = "ok" =>
                     /\ sent[1].type = "Changed"
                     /\ NoDuplicates(sent[1].paths)
                     /\ {sent[1].paths[k] : k \in 1..Len(sent[1].paths)}
                          = PathsOfBatch(r.events)
                /\ call.stat = "not_found" => sent[1].type = "RootDeleted"
                /\ call.stat \notin {"ok", "not_found"} =>
                     sent[1].type = "Error" /\ sent[1].text = call.stat
           ELSE /\ Len(sent) = Len(r.errors)
                /\ \A i \in 1..Len(sent) :
                     sent[i].type = "Error" /\ sent[i].text = r.errors[i]
\* Two events that both name a, one of them b as well: Changed with the
\* two paths.
C31_Witness ==
    /\ Debounced /\ call.result.ok /\ call.stat = "ok"
    /\ Len(call.result.events) = 2
    /\ call.result.events[1].paths = <<"a", "b">>
    /\ call.result.events[2].paths = <<"a">>
    /\ ret[1] = <<[type |-> "Changed", paths |-> <<"b", "a">>, text |-> ""]>>



\* The loop has gone past its select!.
LoopLeft == mainPc \notin {"init", "running"}
\* A queue changes by a send at its back or by the loop taking its front,
\* which is the event the loop then handles.
FifoStep(queue, queueAfter, events, kindOf(_)) ==
    \/ queueAfter = queue
    \/ /\ \E e \in events : queueAfter = Append(queue, e)
       /\ handled' = handled
    \/ /\ queue # <<>>
       /\ queueAfter = Tail(queue)
       /\ handled' = handled + 1
       /\ lastEvent' = kindOf(Head(queue))
TypeOf(e) == e.type
CodeOf(e) == e

C33_ShutdownFlagDiscipline ==
    /\ [](mainPc \in {"init", "running"} => ~shutdown)
    /\ [][shutdown' # shutdown =>
            /\ mainPc = "exiting" /\ mainPc' = "joining"
            /\ shutdown'
            /\ UNCHANGED inputVars]_vars
    /\ [][shutdown => shutdown']_vars
    /\ [][inputPc' # inputPc =>
            /\ UNCHANGED <<mainVars, appVars, drawn>>
            /\ inputPc' = "done" => (inputPc = "check" /\ shutdown)]_vars
\* The input thread was polling when the flag was stored, has come round
\* to its check and returned; the main thread is still joining.
C33_Witness ==
    /\ shutdown /\ inputPc = "done" /\ mainPc = "joining"
    /\ handled >= 1 /\ tree_cache # <<>>



Rendered == call.op = "render" /\ ret # <<>>
\* The text of the line that tells of a cut.
IsTruncationText(text) ==
    Len(text) >= 3 /\ SubSeq(text, 1, 3) = <<46, 46, 46>>
\* C34: the lines of the tree view are the lines of the snapshot's entries,
\* in their order, then one line telling of the cut exactly when the
\* snapshot holds fewer entries than were found; the scroll state counts
\* that line too and clamps the offset against the count.
C34_OneLinePerEntryThenCut ==
    Rendered =>
        LET snap == call.snapshot
            n == Len(snap.entries)
            lines == ret[1].lines
            cut == IF n < snap.total_entries THEN 1 ELSE 0
        IN /\ Len(lines) = n + cut
           /\ \A i \in 1..n :
                Spelled(lines[i])
                    = EntryToLine(snap.entries[i], call.use_color,
                                  snap.entries[i].path \in call.active)
           /\ cut = 1 => IsTruncationText(Spelled(lines[n + 1]))
           /\ \A i \in 1..n : ~IsTruncationText(Spelled(lines[i]))
           /\ ret[1].total_lines = n + cut
           /\ ret[1].offset
                <= SaturatingSub(n + cut, call.tree_area_height)
\* Two entries of three found, in a view of two rows, scrolled to the end:
\* three lines, the offset clamped to one.
C34_Witness ==
    /\ Rendered
    /\ Len(call.snapshot.entries) = 2 /\ call.snapshot.total_entries = 3
    /\ call.snapshot.entries[1].name = <<98>>
    /\ call.snapshot.entries[2].name = <<97>>
    /\ call.tree_area_height = 2 /\ call.offset = USIZE_MAX
    /\ Len(ret[1].lines) = 3 /\ ret[1].offset = 1



Framed == call.op = "render_frame" /\ ret # <<>>
CountOf(tokens, S) ==
    Cardinality({k \in 1..Len(tokens) : tokens[k].kind \in S})
\* The row the cursor is on when token k is written: the line breaks
\* before it.
RowAt(tokens, k) == CountOf(SubSeq(tokens, 1, k - 1), {"crlf"})

\* C35: render_frame returns min(lines.len(), max_rows) and writes that
\* many lines, the first ones, in order; it writes and clears only on rows
\* 0 to max_rows - 1 and so breaks the line at most max_rows - 1 times; it
\* clears every row the previous frame used, up to max_rows; no
\* subtraction goes below zero.
C35_FrameStaysWithinRows ==
    Framed =>
        LET out == ret[1].written
            rows == call.max_rows
            visible == Smaller(Len(call.lines), rows)
            texts == SelectSeq(out, LAMBDA tok : tok.kind = "text")
        IN /\ ret[1].value = visible
           /\ Len(texts) = visible
           /\ \A k \in 1..visible : texts[k].line = call.lines[k]
           /\ Len(texts) <= rows
           /\ CountOf(out, {"crlf"}) <= SaturatingSub(rows, 1)
           /\ \A k \in 1..Len(out) :
                out[k].kind \notin {"home", "crlf"} => RowAt(out, k) < rows
           /\ \A r \in 0..(Smaller(call.prev_line_count, rows) - 1) :
                \E k \in 1..Len(out) :
                    out[k].kind = "clear" /\ RowAt(out, k) = r
           /\ CountOf(out, {"underflow"}) = 0
\* As many lines as rows after a longer frame: the last line has no line
\* break after it.
C35_Witness ==
    /\ Framed
    /\ Len(call.lines) = 3 /\ call.max_rows = 3 /\ call.prev_line_count = 4
    /\ ret[1].value = 3
    /\ CountOf(ret[1].written, {"crlf"}) = 2
\* No row at all: nothing but the cursor going home.
NoRowsWitness ==
    /\ Framed /\ call.max_rows = 0 /\ Len(call.lines) = 2
    /\ call.prev_line_count = 2 /\ ret[1].written = <<FrameToken("home")>>



\* A tracker that never prunes: every path touched since the last clear
\* with the instant of its latest touch (touched), asked with the duration
\* in force at the query.
ReferenceActiveSet(t) ==
    {p \in DOMAIN touched : t - touched[p].at < tracker.duration}

PruningNeverAdds ==
    Queried =>
        /\ ret[1] \subseteq ReferenceActiveSet(clock)
        /\ (\A p \in DOMAIN touched : touched[p].fixed) =>
               ret[1] = ReferenceActiveSet(clock)
\* The run that tells them apart: a query dropped "a" under a shorter
\* duration, the duration was raised, and "a" is younger than the new one.
PrunedThenRaisedWitness ==
    /\ Queried
    /\ "a" \in ReferenceActiveSet(clock)
    /\ "a" \notin ret[1]



\* C37: the scroll offset of every drawn tree frame is the scroll state's
\* clamped offset, also when the tree has more than 65,535 lines.
C37_DrawnAtClampedOffset == drawn.kind = "tree" => drawn.offset = offset
\* What holds in every run: the frame is drawn at the clamped offset
\* modulo 2^16, and at the clamped offset itself while that is below 2^16.
DrawnAtOffsetModulo ==
    drawn.kind = "tree" =>
        /\ drawn.offset = offset % U16_MOD
        /\ offset < U16_MOD => drawn.offset = offset
\* End pressed on a tree of more than 65,535 lines: the clamped offset is
\* above what 16 bits hold and the frame is drawn near the top.
LongTreeEndWitness ==
    /\ lastEvent = "End"
    /\ total_lines > U16_MOD
    /\ offset = total_lines - drawn.view
    /\ offset >= U16_MOD
    /\ drawn.offset < InitTermRows + 2



LineOfEntry == call.op = "entry_to_line" /\ ret # <<>>
IsInfix(part, text) ==
    \E k \in 0..(Len(text) - Len(part)) :
        SubSeq(text, k + 1, k + Len(part)) = part
\* The error as entry_to_line writes it after the name: " [message]".
ErrorNote(e) == <<32, 91>> \o sanitize_terminal_text(e.error[1]) \o <<93>>

\* C38: the line of every entry whose error is set holds the sanitized
\* error message, with the entry in the highlight set or not, with color
\* on or off.
C38_ErrorAlwaysShown ==
    (LineOfEntry /\ call.entry.error # <<>>) =>
        IsInfix(ErrorNote(call.entry), ret[1][1])
\* What holds in every run: the message is in the line unless color is on
\* and the entry is in the highlight set, and then the line is the prefix,
\* the name and, for a symlink, its target.
ErrorShownUnlessHighlighted ==
    (LineOfEntry /\ call.entry.error # <<>>) =>
        IF call.use_color /\ call.changed
        THEN ~IsInfix(ErrorNote(call.entry), ret[1][1])
        ELSE ret[1][1] = call.entry.prefix
                         \o sanitize_terminal_text(call.entry.name)
                         \o ErrorNote(call.entry)
\* A highlighted entry with an error, drawn with color: name only.
HighlightedErrorWitness ==
    /\ LineOfEntry
    /\ call.entry.error # <<>> /\ call.use_color /\ call.changed
    /\ ~call.entry.is_symlink /\ call.entry.prefix = <<>>
    /\ call.entry.name = <<97>>
    /\ ret[1][1] = <<97>>



TitleWritten ==
    call.op = "set_title" /\ ret # <<>> /\ ret[1].written # <<>>
\* What stands between "ESC ] 0 ;" and the last char written.
TitleBetween ==
    SubSeq(ret[1].written, Len(OscOpen) + 1, Len(ret[1].written) - 1)

\* C39: whatever is written for the title is ESC ] 0 ; then a title with
\* no control character (no ESC, BEL, newline, nor any other of either
\* range) then BEL, for every directory name and terminal width: the one
\* BEL of the output is its last char and the one ESC its first.
C39_TitleHasNoControlChar ==
    TitleWritten =>
        LET out == ret[1].written
        IN /\ Len(out) >= Len(OscOpen) + 1
           /\ SubSeq(out, 1, Len(OscOpen)) = OscOpen
           /\ out[Len(out)] = BEL
           /\ ~HasControl(TitleBetween)
           /\ \A k \in 1..Len(out) :
                /\ out[k] = BEL => k = Len(out)
                /\ out[k] = ESC => k = 1
\* A name of BEL and ESC on a wide terminal: both are dropped.
C39_Witness ==
    /\ TitleWritten
    /\ call.display = <<BEL, ESC>>
    /\ call.term_width = 80
    /\ Len(TitleBetween) = 13
\* A name ending in U+00E9 on a terminal of 5 columns: the cut falls inside
\* the char, truncate_middle panics and nothing is written.
NoTitleAfterPanicWitness ==
    /\ call.op = "set_title" /\ ret # <<>>
    /\ call.display = <<97, 233>> /\ call.term_width = 5
    /\ ret[1].panicked /\ ret[1].written = <<>>
\* A name with U+0085 on a terminal of 8 columns: dropped, then cut in the
\* middle.
CutTitleWitness ==
    /\ TitleWritten
    /\ call.display = <<NEL, 97>>
    /\ call.term_width = 8
    /\ TitleBetween = <<76, 105, 118, 46, 46, 46, 32, 97>>

====
